---- MODULE Spec2Model ----
(***************************************************************************)
(* A model of pytransins.transins.TransIns: markup extraction, alignment   *)
(* driven tag migration, tag interpolation and markup reinsertion over one *)
(* shared per-document context.                                            *)
(*                                                                         *)
(* Python values are modelled as follows.                                  *)
(*   dict      a function whose DOMAIN is the key set                      *)
(*   list      a sequence (order and duplicates kept)                      *)
(*   list(set) the iteration order of CPython's hash table for small ints  *)
(*   identity  two dict entries that hold the SAME list object are in one  *)
(*             class of `shared`; an in-place append/extend reaches every  *)
(*             member of the class, a rebinding leaves the class           *)
(*   raise     the name of the exception in `exc`, the context as it was   *)
(*             left at the raise                                           *)
(***************************************************************************)
EXTENDS Integers, Sequences, FiniteSets, TLC

(***************************************************************************)
(* Bounds of the model.                                                    *)
(***************************************************************************)
MaxSiblings == 5      \* leading <p>w</p> siblings of the long documents
MaxAlign == 2         \* alignments in one alignment list
MaxKey == 5           \* largest key of a map given to tag_interpolate
MaxGap == 2           \* largest interpolation_gap

(***************************************************************************)
(* Generic list helpers.                                                   *)
(***************************************************************************)
Range(s) == {s[i] : i \in DOMAIN s}

Contains(s, x) == \E i \in DOMAIN s : s[i] = x

Max(S) == CHOOSE x \in S : \A y \in S : y <= x

Min(S) == CHOOSE x \in S : \A y \in S : x <= y

RECURSIVE SortedSeq(_)
SortedSeq(S) ==
    IF S = {} THEN <<>>
    ELSE LET m == Min(S) IN <<m>> \o SortedSeq(S \ {m})

Reverse(s) == [i \in 1..Len(s) |-> s[Len(s) + 1 - i]]

\* [x for x in s if x not in t]
Without(s, t) == LET keep(x) == ~Contains(t, x) IN SelectSeq(s, keep)

\* [x for x in s if x in t]
Within(s, t) == LET keep(x) == Contains(t, x) IN SelectSeq(s, keep)

(***************************************************************************)
(* CPython's set of small non-negative ints.  A set starts as a table of 8 *)
(* slots; key h goes to slot h mod 8 and on a collision to slot 5i+1 mod 8 *)
(* (the perturbation h >> 5 is 0 for h < 32, and a table of 8 has no       *)
(* linear probes).  The fifth distinct key grows the table to 32 slots, in *)
(* which ints below 32 never collide.  Iteration runs over the slots in    *)
(* order.  TagIds in this model stay below 32.                             *)
(***************************************************************************)
SmallTable == 8

GrowAt == 5

EmptyTable == [i \in 1..SmallTable |-> -1]

RECURSIVE FindSlot(_, _, _)
FindSlot(tab, h, i) ==
    IF tab[i + 1] = -1 \/ tab[i + 1] = h THEN i
    ELSE FindSlot(tab, h, (5 * i + 1) % SmallTable)

RECURSIVE FillTable(_, _, _)
FillTable(tab, s, i) ==
    IF i > Len(s) THEN tab
    ELSE FillTable([tab EXCEPT ![FindSlot(tab, s[i], s[i] % SmallTable) + 1] = s[i]],
                   s, i + 1)

\* list(set(s))
PyListSet(s) ==
    IF Cardinality(Range(s)) >= GrowAt THEN SortedSeq(Range(s))
    ELSE LET used(x) == x # -1 IN SelectSeq(FillTable(EmptyTable, s, 1), used)

\* list(set(a).intersection(set(b))): CPython walks the smaller of the two
\* sets (the argument when they are equal in size) and adds the common keys
\* to a new set.
IntersectSets(sa, sb) ==
    PyListSet(IF Len(sb) > Len(sa) THEN Within(sa, sb) ELSE Within(sb, sa))

PyListIntersection(a, b) == IntersectSets(PyListSet(a), PyListSet(b))

(***************************************************************************)
(* Dicts.                                                                  *)
(***************************************************************************)
EmptyDict == <<>>

Put(d, k, v) == [x \in (DOMAIN d) \cup {k} |-> IF x = k THEN v ELSE d[x]]

Remove(d, k) == [x \in (DOMAIN d) \ {k} |-> d[x]]

(***************************************************************************)
(* pytransins.tokenizer.  A tokenizer object is its name, the list of the  *)
(* languages it declares, whether its tokenize is implemented, and its     *)
(* detokenize: "own", "none" (the base class method, which raises          *)
(* NotImplementedError) or "moses" (the default put in its place).  A      *)
(* TokenizerGroup is its list of languages and its map from a language to  *)
(* the tokenizer registered for it.                                        *)
(***************************************************************************)
TokenizerObject(name, languages, tokenize, detokenize) ==
    [name |-> name, languages |-> languages, tokenize |-> tokenize,
     detokenize |-> detokenize]

\* MosesTokenizer()
Moses == TokenizerObject("moses", <<"en", "es">>, TRUE, "own")

\* TokenizerGroup()
EmptyGroup == [languages |-> <<>>, language_tokenizer_map |-> EmptyDict]

\* lines 104-111: tokenizer.detokenize = MosesTokenizer().detokenize
WithDefaultDetokenizer(tokenizer) ==
    IF tokenizer.detokenize = "none" THEN [tokenizer EXCEPT !.detokenize = "moses"]
    ELSE tokenizer

\* lines 113-119: the loop over the declared languages
RECURSIVE register_languages(_, _, _)
register_languages(g, tokenizer, i) ==
    IF i > Len(tokenizer.languages) THEN g
    ELSE register_languages(
             [languages |-> IF Contains(g.languages, tokenizer.languages[i])
                            THEN g.languages
                            ELSE Append(g.languages, tokenizer.languages[i]),
              language_tokenizer_map |->
                  Put(g.language_tokenizer_map, tokenizer.languages[i], tokenizer)],
             tokenizer, i + 1)

\* add_tokenizer without the trial call of tokenize
add_tokenizer_unchecked(g, tokenizer) ==
    IF tokenizer.languages = <<>> THEN g
    ELSE register_languages(g, WithDefaultDetokenizer(tokenizer), 1)

\* TokenizerGroup.add_tokenizer
add_tokenizer(g, tokenizer) ==
    IF tokenizer.languages = <<>> THEN g
    ELSE IF ~tokenizer.tokenize THEN g
    ELSE register_languages(g, WithDefaultDetokenizer(tokenizer), 1)

(***************************************************************************)
(* The context: the attributes of one TransIns object.  A slot <<f, k>> is *)
(* entry k of the dict attribute f.  languages and language_tokenizer_map  *)
(* are the attributes of its TokenizerGroup, self.tokenizer.               *)
(***************************************************************************)
MapFields == {"tag_map", "no_token_tags", "tgt_tag_map", "tgt_no_token_tags"}

\* TransIns(tokenizer): the group holds the tokenizer given, the models are
\* empty
NewCtx(tokenizer) ==
    [tag_id_map |-> EmptyDict,
     tag_map |-> EmptyDict,
     tokens |-> <<>>,
     no_token_tags |-> EmptyDict,
     nt_order |-> <<>>,
     tgt_tag_map |-> EmptyDict,
     tgt_tokens |-> <<>>,
     tgt_no_token_tags |-> EmptyDict,
     shared |-> {},
     languages |-> add_tokenizer(EmptyGroup, tokenizer).languages,
     language_tokenizer_map |->
         add_tokenizer(EmptyGroup, tokenizer).language_tokenizer_map]

\* TransIns(): the tokenizer is MosesTokenizer()
EmptyCtx == NewCtx(Moses)

\* the TokenizerGroup of a context
Group(c) ==
    [languages |-> c.languages, language_tokenizer_map |-> c.language_tokenizer_map]

ClassOf(sh, s) == IF \E cl \in sh : s \in cl THEN CHOOSE cl \in sh : s \in cl ELSE {s}

Detach(sh, s) == {cl \in {c \ {s} : c \in sh} : Cardinality(cl) >= 2}

\* keys of no_token_tags in insertion order
OrderWith(c, f, k) ==
    IF f = "no_token_tags" /\ k \notin DOMAIN c.no_token_tags
    THEN Append(c.nt_order, k) ELSE c.nt_order

\* d[k] = v, v a list no other entry holds
Bind(c, f, k, v) ==
    [c EXCEPT ![f] = Put(@, k, v),
              !.nt_order = OrderWith(c, f, k),
              !.shared = Detach(@, <<f, k>>)]

\* d[k] = e[j]: the entry holds the list object of slot <<g, j>>
BindShared(c, f, k, g, j) ==
    IF <<f, k>> = <<g, j>> THEN c
    ELSE LET sh == Detach(c.shared, <<f, k>>)
             cl == ClassOf(sh, <<g, j>>)
         IN [c EXCEPT ![f] = Put(@, k, c[g][j]),
                      !.nt_order = OrderWith(c, f, k),
                      !.shared = (sh \ {cl}) \cup {cl \cup {<<f, k>>}}]

\* the list object of slot <<f, k>> changes in place to v
Mutate(c, f, k, v) ==
    LET cl == ClassOf(c.shared, <<f, k>>)
        upd(g) == [x \in DOMAIN c[g] |-> IF <<g, x>> \in cl THEN v ELSE c[g][x]]
    IN [c EXCEPT !.tag_map = upd("tag_map"),
                 !.no_token_tags = upd("no_token_tags"),
                 !.tgt_tag_map = upd("tgt_tag_map"),
                 !.tgt_no_token_tags = upd("tgt_no_token_tags")]

\* if k not in d: d[k] = []
\* d[k].extend(xs)
ExtendList(c, f, k, xs) == Mutate(c, f, k, c[f][k] \o xs)

ExtendAt(c, f, k, xs) ==
    ExtendList(IF k \in DOMAIN c[f] THEN c ELSE Bind(c, f, k, <<>>), f, k, xs)

(***************************************************************************)
(* The parsed document.  A node is a text node carrying n tokens (n = 0 is *)
(* whitespace-only text), a comment, or an element with a name and ordered *)
(* children; attributes are taken as part of the name.                     *)
(***************************************************************************)
Text(n) == [type |-> "text", name |-> "", n |-> n, children |-> <<>>]

CommentNode == [type |-> "comment", name |-> "", n |-> 0, children |-> <<>>]

Elem(name, children) == [type |-> "elem", name |-> name, n |-> 0, children |-> children]

\* BeautifulSoup(raw, "html.parser"): the document object wrapping the
\* top-level nodes
Soup(raw) == Elem("[document]", raw)

self_closing == {"area", "base", "br", "col", "embed", "hr", "img", "input", "link",
                 "meta", "param", "source", "track", "wbr", "command", "keygen",
                 "menuitem"}

dnt == {"script", "style"}

\* MosesTokenizer().languages, registered by the constructor TransIns()
Languages == {"en", "es"}

\* check_lang: the language is in the list of the group
Supported(c, lang) == Contains(c.languages, lang)

\* element.text is non-empty: some text node lies beneath the element
RECURSIVE HasText(_)
HasText(element) ==
    \E i \in DOMAIN element.children :
        \/ element.children[i].type = "text"
        \/ element.children[i].type = "elem" /\ HasText(element.children[i])

\* tokenizer.tokenize(element.text, lang=lang): one token per word, each
\* token recording the language it was tokenized with
Tokenize(element, lang) == [i \in 1..element.n |-> lang]

\* A registry fragment: the rendering owned by a TagId.
\*   open      "<name ...>"                       get_opening_tag
\*   verbatim  "<name ...>children</name>"        childless-of-text or dnt
\*   selfclose "<name ... />"
\*   empty     "<name ...></name>"
\*   comment   "<!-- ... -->"
Fragment(name, form) == [name |-> name, form |-> form]

get_opening_tag(element) == Fragment(element.name, "open")

\* the largest TagId of the registry, given again
LastTagId(c) ==
    IF DOMAIN c.tag_id_map = {} THEN 0 ELSE Max(DOMAIN c.tag_id_map)

NextTagId(c) ==
    IF DOMAIN c.tag_id_map = {} THEN 0 ELSE Max(DOMAIN c.tag_id_map) + 1

\* for i in range(lo, hi): tag_map.setdefault(i, []); tag_map[i].append(tag_id)
RECURSIVE TagRange(_, _, _, _)
TagRange(c, tag_id, lo, hi) ==
    IF lo >= hi THEN c
    ELSE TagRange(ExtendAt(c, "tag_map", lo, <<tag_id>>), tag_id, lo + 1, hi)

\* the no-token tag anchored at index 0, whatever its offset
RegisterNoTokenAtStart(c, tag_id, frag, offset) ==
    ExtendAt([c EXCEPT !.tag_id_map = Put(@, tag_id, frag)],
             "no_token_tags", 0, <<tag_id>>)

\* lines 117-121, 140-143, 174-177: the fragment and the anchor of a TagId
\* without tokens
RegisterNoToken(c, tag_id, frag, offset) ==
    ExtendAt([c EXCEPT !.tag_id_map = Put(@, tag_id, frag)],
             "no_token_tags", offset, <<tag_id>>)

RECURSIVE extract_element(_, _, _, _)
RECURSIVE extract_children(_, _, _, _, _, _)

\* the tokens of one child tagged from the element's own offset, whatever the
\* earlier children gave
child_done_from_offset(r, tag_id, children, i, offset, token_buffer) ==
    IF r.exc # "none" THEN r
    ELSE
    extract_children(TagRange(r.c, tag_id, offset, offset + Len(r.tokens)),
                     tag_id, children, i + 1, offset, token_buffer \o r.tokens)

\* lines 153-163: the tokens of one child are appended to the buffer and
\* every one of them is tagged with the element's TagId
child_done(r, tag_id, children, i, offset, token_buffer) ==
    IF r.exc # "none" THEN r
    ELSE
    extract_children(TagRange(r.c, tag_id, offset + Len(token_buffer),
                              offset + Len(token_buffer) + Len(r.tokens)),
                     tag_id, children, i + 1, offset, token_buffer \o r.tokens)

\* lines 148-151: the loop over the children of one element; the recursive
\* call passes no lang, so every child is extracted with the default "en"
extract_children(c, tag_id, children, i, offset, token_buffer) ==
    IF i > Len(children) THEN [c |-> c, tokens |-> token_buffer, exc |-> "none"]
    ELSE child_done(extract_element(c, children[i], offset + Len(token_buffer), "en"),
                    tag_id, children, i, offset, token_buffer)

\* lines 165-179: an element whose children gave no token is a no-token tag
element_done(r, tag_id, element, offset) ==
    IF r.exc # "none" THEN r
    ELSE IF r.tokens = <<>>
    THEN [c |-> RegisterNoToken(r.c, tag_id,
                    Fragment(element.name,
                             IF element.name \in self_closing
                             THEN "selfclose" ELSE "empty"),
                    offset),
          tokens |-> <<>>,
          exc |-> "none"]
    ELSE r

\* TransIns._extract_markup: the context, the tokens returned and the
\* exception raised; the tokenizer group raises TypeError for a language
\* that is not in its list, and the context stays as the traversal left it
extract_element(c, element, offset, lang) ==
    IF element.type = "text"
    THEN IF Supported(c, lang)
         THEN [c |-> c, tokens |-> Tokenize(element, lang), exc |-> "none"]
         ELSE [c |-> c, tokens |-> <<>>, exc |-> "TypeError"]
    ELSE IF element.type = "comment"
    THEN [c |-> RegisterNoToken(c, NextTagId(c), Fragment("", "comment"), offset),
          tokens |-> <<>>, exc |-> "none"]
    ELSE IF (element.children # <<>> /\ ~HasText(element)) \/ element.name \in dnt
    THEN [c |-> RegisterNoToken(c, NextTagId(c), Fragment(element.name, "verbatim"),
                                offset),
          tokens |-> <<>>, exc |-> "none"]
    ELSE element_done(
             extract_children([c EXCEPT !.tag_id_map =
                                   Put(@, NextTagId(c), get_opening_tag(element))],
                              NextTagId(c), element.children, 1, offset, <<>>),
             NextTagId(c), element, offset)

\* extract_markup without "del self.tag_id_map[0]"
extract_done_keeping_root(r) ==
    IF r.exc # "none" THEN [c |-> r.c, exc |-> r.exc]
    ELSE [c |-> [r.c EXCEPT !.tokens = r.tokens], exc |-> "none"]

\* lines 201-202: store the tokens, del self.tag_id_map[0]
extract_done(r) ==
    IF r.exc # "none" THEN [c |-> r.c, exc |-> r.exc]
    ELSE IF 0 \in DOMAIN r.c.tag_id_map
    THEN [c |-> [r.c EXCEPT !.tokens = r.tokens, !.tag_id_map = Remove(@, 0)],
          exc |-> "none"]
    ELSE [c |-> [r.c EXCEPT !.tokens = r.tokens], exc |-> "KeyError"]

\* extract_markup with the language checked after the traversal
extract_markup_checking_late(c, raw, lang) ==
    IF ~Supported(c, lang)
    THEN [c |-> extract_element(c, Soup(raw), 0, "en").c, exc |-> "TypeError"]
    ELSE extract_done(extract_element(c, Soup(raw), 0, lang))

\* TransIns.extract_markup: the result context and the exception raised
extract_markup(c, raw, lang) ==
    IF ~Supported(c, lang) THEN [c |-> c, exc |-> "TypeError"]
    ELSE extract_done(extract_element(c, Soup(raw), 0, lang))

(***************************************************************************)
(* TransIns.migrate_tags.  An alignment is <<src_idx, tgt_idx, score>>;    *)
(* scores and the threshold are in tenths (5 is 0.5).                      *)
(*                                                                         *)
(* unmigrated_tag_ids starts as the registry's key view (is_list FALSE)    *)
(* and becomes a list at the first accepted alignment whose source index   *)
(* has an entry in tag_map or in no_token_tags.                            *)
(***************************************************************************)
RemoveFirst(s, x) ==
    LET i == Min({j \in DOMAIN s : s[j] = x})
    IN [j \in 1..(Len(s) - 1) |-> IF j < i THEN s[j] ELSE s[j + 1]]

\* lines 237-242 with the tags stored at the source index
accept_tagged_at_source(m, src_idx, tgt_idx) ==
    IF src_idx \in DOMAIN m.c.tag_map
    THEN [m EXCEPT !.c = ExtendAt(m.c, "tgt_tag_map", src_idx, m.c.tag_map[src_idx]),
                   !.unmigrated = Without(@, m.c.tag_map[src_idx]),
                   !.is_list = TRUE]
    ELSE m

\* lines 237-242: the tags of the source token go to the target token
accept_tagged(m, src_idx, tgt_idx) ==
    IF src_idx \in DOMAIN m.c.tag_map
    THEN [m EXCEPT !.c = ExtendAt(m.c, "tgt_tag_map", tgt_idx, m.c.tag_map[src_idx]),
                   !.unmigrated = Without(@, m.c.tag_map[src_idx]),
                   !.is_list = TRUE]
    ELSE m

\* lines 244-253: the no-token tags anchored at the source index go with it
accept_no_token(m, src_idx, tgt_idx) ==
    IF src_idx \in DOMAIN m.c.no_token_tags
    THEN [m EXCEPT !.c = ExtendAt(m.c, "tgt_no_token_tags", tgt_idx,
                                  m.c.no_token_tags[src_idx]),
                   !.unmigrated = Without(@, m.c.no_token_tags[src_idx]),
                   !.is_list = TRUE,
                   !.untagged = IF Contains(@, src_idx) THEN RemoveFirst(@, src_idx)
                                ELSE @]
    ELSE m

\* lines 233-255: the loop over the alignments
RECURSIVE migrate_accepted(_, _, _, _)
migrate_accepted(m, alignments, threshold, i) ==
    IF i > Len(alignments) THEN m
    ELSE IF alignments[i][3] < threshold
    THEN migrate_accepted([m EXCEPT !.secondary = Append(@, alignments[i])],
                          alignments, threshold, i + 1)
    ELSE migrate_accepted(
             accept_no_token(accept_tagged(m, alignments[i][1], alignments[i][2]),
                             alignments[i][1], alignments[i][2]),
             alignments, threshold, i + 1)

\* line 258: {src_idx: tgt_idx for src_idx, tgt_idx, _ in alignments}
RECURSIVE available_sources(_, _, _)
available_sources(alignments, i, d) ==
    IF i > Len(alignments) THEN d
    ELSE available_sources(alignments, i + 1, Put(d, alignments[i][1], alignments[i][2]))

\* lines 265-299: the no-token anchors no accepted alignment migrated
RECURSIVE migrate_untagged(_, _, _)
migrate_untagged(m, sources, i) ==
    IF i > Len(m.untagged) \/ m.exc # "none" THEN m
    ELSE LET untagged_id == m.untagged[i]
             hit == Contains(m.unmigrated, untagged_id)
             later == {s \in DOMAIN sources : s >= untagged_id}
             earlier == {s \in DOMAIN sources : s < untagged_id}
             available_candidates == IF later # {} THEN later ELSE earlier
         IN IF hit /\ ~m.is_list THEN [m EXCEPT !.exc = "AttributeError"]
            ELSE LET u1 == IF hit THEN RemoveFirst(m.unmigrated, untagged_id)
                           ELSE m.unmigrated
                 IN IF available_candidates = {}
                    THEN migrate_untagged(
                             [m EXCEPT !.c = BindShared(m.c, "tgt_no_token_tags", 0,
                                                        "no_token_tags", untagged_id),
                                       !.unmigrated = u1],
                             sources, i + 1)
                    ELSE LET closest == IF Min(available_candidates) >= untagged_id
                                        THEN Min(available_candidates)
                                        ELSE Max(available_candidates)
                         IN migrate_untagged(
                                [m EXCEPT !.c = ExtendAt(m.c, "tgt_no_token_tags", closest,
                                                         m.c.no_token_tags[untagged_id]),
                                          !.unmigrated = u1],
                                sources, i + 1)

\* lines 312-317: the tags of the source token that are still unmigrated
force_one(m, tgt_idx, shared_ids) ==
    IF shared_ids = <<>> THEN m
    ELSE [m EXCEPT !.c = ExtendAt(m.c, "tgt_tag_map", tgt_idx, shared_ids)]

\* lines 308-317: forced migration over the alignments below the threshold
RECURSIVE migrate_forced(_, _)
migrate_forced(m, i) ==
    IF i > Len(m.secondary) \/ m.exc # "none" THEN m
    ELSE IF m.secondary[i][1] \notin DOMAIN m.c.tag_map THEN [m EXCEPT !.exc = "KeyError"]
    ELSE migrate_forced(
             force_one(m, m.secondary[i][2],
                       PyListIntersection(m.c.tag_map[m.secondary[i][1]], m.unmigrated)),
             i + 1)

\* lines 319-324: d[key] = list(set(d[key])) for every key
RECURSIVE remove_duplicates(_, _, _)
remove_duplicates(c, f, keys) ==
    IF keys = {} THEN c
    ELSE remove_duplicates(Bind(c, f, Min(keys), PyListSet(c[f][Min(keys)])),
                           f, keys \ {Min(keys)})

remove_all_duplicates(c, f) == remove_duplicates(c, f, DOMAIN c[f])

\* lines 226-231: the state the loops start from
migrate_start(c) ==
    [c |-> c,
     untagged |-> c.nt_order,
     secondary |-> <<>>,
     unmigrated |-> SortedSeq(DOMAIN c.tag_id_map),
     is_list |-> FALSE,
     exc |-> "none"]

\* lines 301-306: if unmigrated_tag_ids and force_migrate
force_stage(m, force_migrate) ==
    IF m.exc = "none" /\ m.unmigrated # <<>> /\ force_migrate
    THEN migrate_forced(m, 1) ELSE m

migrate_done(m) ==
    IF m.exc = "none"
    THEN [c |-> remove_all_duplicates(remove_all_duplicates(m.c, "tgt_tag_map"),
                                      "tgt_no_token_tags"),
          exc |-> "none"]
    ELSE [c |-> m.c, exc |-> m.exc]

migrate_tags(c, alignments, threshold, force_migrate) ==
    migrate_done(
        force_stage(
            migrate_untagged(migrate_accepted(migrate_start(c), alignments, threshold, 1),
                             available_sources(alignments, 1, EmptyDict), 1),
            force_migrate))

(***************************************************************************)
(* TransIns.tag_interpolate.  The method works on a sorted copy of the     *)
(* dict (the same list objects) and stores the copy back at the end, so a  *)
(* raise leaves the context as it was.  A fill that adds a key while the   *)
(* loop still iterates the dict ends the loop with RuntimeError.           *)
(***************************************************************************)
MapSide(target) == IF target THEN "tgt_tag_map" ELSE "tag_map"

\* for i in range(lo, hi): to_interpolate[i] = <the list object of slot <<f, j>>>
RECURSIVE FillShared(_, _, _, _, _)
FillShared(c, f, lo, hi, j) ==
    IF lo >= hi THEN c
    ELSE FillShared(BindShared(c, f, lo, f, j), f, lo + 1, hi, j)

\* interpolated_tags = <new list v>; for i in range(lo, hi): to_interpolate[i] = it
FillNew(c, f, lo, hi, v) ==
    IF lo >= hi THEN c
    ELSE FillShared(Bind(c, f, lo, v), f, lo + 1, hi, lo)

\* the fill of one gap that fills only the first index of a gap at index 0
fill_gap_first_only(c, f, lo, hi, token_idx) ==
    IF lo = 0 THEN FillShared(c, f, lo, lo + 1, token_idx)
    ELSE FillNew(c, f, lo, hi, PyListIntersection(c[f][lo - 1], c[f][token_idx]))

\* lines 377-389: the fill of one gap
fill_gap(c, f, lo, hi, token_idx) ==
    IF lo = 0 THEN FillShared(c, f, lo, hi, token_idx)
    ELSE FillNew(c, f, lo, hi, PyListIntersection(c[f][lo - 1], c[f][token_idx]))

\* lines 357-391: one step of the loop, at key keys[i]
RECURSIVE interpolate_loop(_, _, _, _, _)
interpolate_loop(st, f, keys, i, interpolation_gap) ==
    IF st.exc # "none" THEN st
    ELSE IF i > Len(keys) THEN st
    ELSE IF st.c[f][keys[i]] = <<>>
    THEN interpolate_loop(
             [st EXCEPT !.gap_start = IF st.gap = 0 THEN keys[i] ELSE @,
                        !.gap = @ + 1],
             f, keys, i + 1, interpolation_gap)
    ELSE IF st.gap = 0 \/ st.gap > interpolation_gap
    THEN interpolate_loop(st, f, keys, i + 1, interpolation_gap)
    ELSE IF st.gap_start # 0 /\ (st.gap_start - 1) \notin DOMAIN st.c[f]
    THEN [st EXCEPT !.exc = "KeyError"]
    ELSE interpolate_loop(
             [st EXCEPT !.c = fill_gap(st.c, f, st.gap_start, st.gap_start + st.gap,
                                       keys[i]),
                        !.gap = 0,
                        !.exc = IF \E k \in st.gap_start..(st.gap_start + st.gap - 1) :
                                       k \notin DOMAIN st.c[f]
                                THEN "RuntimeError" ELSE @],
             f, keys, i + 1, interpolation_gap)

\* lines 393-401: the gap still open after the last key, then the store
interpolate_end(c, st, f, interpolation_gap) ==
    IF st.exc # "none" THEN [c |-> c, exc |-> st.exc]
    ELSE IF st.gap # 0 /\ st.gap <= interpolation_gap /\ st.gap_start # 0
    THEN IF (st.gap_start - 1) \notin DOMAIN st.c[f]
         THEN [c |-> c, exc |-> "KeyError"]
         ELSE [c |-> FillShared(st.c, f, st.gap_start, st.gap_start + st.gap,
                                st.gap_start - 1),
               exc |-> "none"]
    ELSE [c |-> st.c, exc |-> "none"]

interpolate_side(c, f, interpolation_gap) ==
    IF DOMAIN c[f] = {} THEN [c |-> c, exc |-> "none"]
    ELSE interpolate_end(c,
             interpolate_loop([c |-> c, gap |-> 0, gap_start |-> 0, exc |-> "none"],
                              f, SortedSeq(DOMAIN c[f]), 1, interpolation_gap),
             f, interpolation_gap)

tag_interpolate(c, target, interpolation_gap) ==
    interpolate_side(c, MapSide(target), interpolation_gap)

(***************************************************************************)
(* TransIns.reinsert_markup.  The output is the list of units appended to  *)
(* output_buffer before the final join:                                    *)
(*   text   a detokenized run of tokens       space  the separator " "     *)
(*   open   the fragment of an opening TagId  close  "</name>" of a TagId  *)
(*   frag   the fragment of a no-token TagId                               *)
(* Every registry fragment starts with "<" and ends with ">" (is_tag);     *)
(* detokenized text of word tokens does not.                               *)
(***************************************************************************)
NoFragment == [name |-> "", form |-> "none"]

Unit(u, id, frag, toks) == [u |-> u, id |-> id, frag |-> frag, toks |-> toks]

Space == Unit("space", -1, NoFragment, <<>>)

TextUnit(toks) == Unit("text", -1, NoFragment, toks)

TagUnit(u, id, reg) == Unit(u, id, reg[id], <<>>)

is_tag(unit) == unit.u \in {"open", "close", "frag"}

\* if output_buffer and output_buffer[-1] != " " and not is_tag(output_buffer[-1]):
\*     output_buffer.append(" ")
Spaced(out) ==
    IF out # <<>> /\ out[Len(out)] # Space /\ ~is_tag(out[Len(out)])
    THEN Append(out, Space) ELSE out

\* lines 480-499: the closing tags of one token
RECURSIVE emit_closing(_, _, _, _)
emit_closing(r, reg, closing, i) ==
    IF i > Len(closing) THEN r
    ELSE emit_closing(
             IF closing[i] = 0 \/ closing[i] \notin DOMAIN reg
             THEN [r EXCEPT !.active = RemoveFirst(@, closing[i])]
             ELSE [r EXCEPT !.active = RemoveFirst(@, closing[i]),
                            !.out = @ \o <<TagUnit("close", closing[i], reg), Space>>],
             reg, closing, i + 1)

\* lines 521-524: the fragments emitted ahead of one opening tag
RECURSIVE emit_fragments_before(_, _, _, _)
emit_fragments_before(r, reg, ids, i) ==
    IF i > Len(ids) \/ r.exc # "none" THEN r
    ELSE IF ids[i] \notin DOMAIN reg THEN [r EXCEPT !.exc = "KeyError"]
    ELSE emit_fragments_before([r EXCEPT !.out = Append(@, TagUnit("frag", ids[i], reg))],
                               reg, ids, i + 1)

\* no fragment is taken ahead of an opening tag
ids_before_none(no_tokens, id) == <<>>

\* the no-token TagIds smaller than an opening TagId
ids_before(no_tokens, id) == LET smaller(t) == t < id IN SelectSeq(no_tokens, smaller)

\* lines 526-528: the opening tag itself, after the fragments ahead of it
open_one(r, reg, id, before) ==
    IF r.exc # "none" THEN r
    ELSE [r EXCEPT !.no_tokens = Without(@, before),
                   !.out = Append(@, TagUnit("open", id, reg))]

\* lines 501-528: the opening tags of one token
RECURSIVE emit_opening(_, _, _, _)
emit_opening(r, reg, opening, i) ==
    IF i > Len(opening) \/ r.exc # "none" THEN r
    ELSE IF opening[i] = 0 \/ opening[i] \notin DOMAIN reg
    THEN emit_opening(r, reg, opening, i + 1)
    ELSE emit_opening(
             open_one(emit_fragments_before(
                          [r EXCEPT !.active = Append(@, opening[i]), !.out = Spaced(@)],
                          reg, ids_before(r.no_tokens, opening[i]), 1),
                      reg, opening[i], ids_before(r.no_tokens, opening[i])),
             reg, opening, i + 1)

\* lines 530-546: the fragments left after the opening tags
RECURSIVE emit_fragments(_, _, _, _)
emit_fragments(r, reg, ids, i) ==
    IF i > Len(ids) THEN r
    ELSE emit_fragments(
             IF ids[i] \notin DOMAIN reg THEN r
             ELSE [r EXCEPT !.out = Append(Spaced(@), TagUnit("frag", ids[i], reg))],
             reg, ids, i + 1)

\* lines 470-478: the buffered text is detokenized when the tags change
flush_text(r, flush) ==
    IF flush THEN [r EXCEPT !.out = Append(@, TextUnit(r.buf)), !.buf = <<>>] ELSE r

\* lines 530-552: the remaining fragments, then the token joins the buffer
token_done(r, reg, opening, closing, token) ==
    IF r.exc # "none" THEN r
    ELSE [emit_fragments(r, reg, r.no_tokens, 1)
            EXCEPT !.buf = Append(@, token),
                   !.active = PyListSet(Without(@, closing) \o opening)]

\* lines 462-552: one token whose tags are new_tags and whose index anchors
\* the fragments no_tokens
reinsert_token(r, reg, new_tags, no_tokens, token, lang) ==
    IF (Without(new_tags, r.active) # <<>> \/ Without(r.active, new_tags) # <<>>
            \/ no_tokens # <<>>)
       /\ r.buf # <<>> /\ lang \notin r.langs
    THEN [r EXCEPT !.exc = "KeyError"]
    ELSE token_done(
             emit_opening(
                 [emit_closing(
                      flush_text(r, (Without(new_tags, r.active) # <<>>
                                         \/ Without(r.active, new_tags) # <<>>
                                         \/ no_tokens # <<>>)
                                    /\ r.buf # <<>>),
                      reg, Reverse(Without(r.active, new_tags)), 1)
                    EXCEPT !.no_tokens = no_tokens],
                 reg, Without(new_tags, r.active), 1),
             reg, Without(new_tags, r.active), Reverse(Without(r.active, new_tags)),
             token)

\* lines 457-552: the loop over the tokens
RECURSIVE reinsert_loop(_, _, _, _, _, _, _)
reinsert_loop(r, reg, to_reinsert, to_reinsert_no_tokens, tokens, lang, i) ==
    IF i > Len(tokens) \/ r.exc # "none" THEN r
    ELSE IF (i - 1) \notin DOMAIN to_reinsert THEN [r EXCEPT !.exc = "KeyError"]
    ELSE reinsert_loop(
             reinsert_token(r, reg, to_reinsert[i - 1],
                            IF (i - 1) \in DOMAIN to_reinsert_no_tokens
                            THEN to_reinsert_no_tokens[i - 1] ELSE <<>>,
                            tokens[i], lang),
             reg, to_reinsert, to_reinsert_no_tokens, tokens, lang, i + 1)

\* the end of the loop with the active tags left open
close_active_never(out, reg, ids, i) == out

\* lines 558-573: force-close what is still active
RECURSIVE close_active(_, _, _, _)
close_active(out, reg, ids, i) ==
    IF i > Len(ids) THEN out
    ELSE close_active(
             IF ids[i] = 0 \/ ids[i] \notin DOMAIN reg THEN out
             ELSE Append(out, TagUnit("close", ids[i], reg)),
             reg, ids, i + 1)

\* lines 438-441: every target index gets an entry
RECURSIVE fill_target(_, _, _)
fill_target(c, i, n) ==
    IF i >= n THEN c
    ELSE fill_target(IF i \in DOMAIN c.tgt_tag_map THEN c
                     ELSE Bind(c, "tgt_tag_map", i, <<>>),
                     i + 1, n)

\* lines 575-581: the fragments anchored after the last token
reinsert_trailing(c, reg, out, trailing) ==
    IF \E j \in DOMAIN trailing : trailing[j] \notin DOMAIN reg
    THEN [c |-> c, exc |-> "KeyError", output |-> <<>>]
    ELSE [c |-> c, exc |-> "none",
          output |-> out \o [j \in DOMAIN trailing |-> TagUnit("frag", trailing[j], reg)]]

\* lines 554-581: the last text, the tags still open, the trailing fragments
reinsert_end(c, reg, nt, tokens, lang, r) ==
    IF r.exc # "none" THEN [c |-> c, exc |-> r.exc, output |-> <<>>]
    ELSE IF r.buf # <<>> /\ lang \notin DOMAIN c.language_tokenizer_map
    THEN [c |-> c, exc |-> "KeyError", output |-> <<>>]
    ELSE reinsert_trailing(c, reg,
             close_active(IF r.buf # <<>> THEN Append(r.out, TextUnit(r.buf)) ELSE r.out,
                          reg, Reverse(r.active), 1),
             IF DOMAIN nt # {} /\ Max(DOMAIN nt) = Len(tokens)
             THEN nt[Len(tokens)] ELSE <<>>)

\* lines 443-455: the maps of the side that is reinserted
reinsert_side(c, tokens, target, lang) ==
    reinsert_end(c, c.tag_id_map,
                 IF target THEN c.tgt_no_token_tags ELSE c.no_token_tags,
                 tokens, lang,
                 reinsert_loop([active |-> <<>>, out |-> <<>>, buf |-> <<>>,
                                no_tokens |-> <<>>, exc |-> "none",
                                langs |-> DOMAIN c.language_tokenizer_map],
                               c.tag_id_map, c[MapSide(target)],
                               IF target THEN c.tgt_no_token_tags ELSE c.no_token_tags,
                               tokens, lang, 1))

reinsert_interpolated(ti, tokens, target, lang) ==
    IF ti.exc # "none" THEN [c |-> ti.c, exc |-> ti.exc, output |-> <<>>]
    ELSE reinsert_side(ti.c, tokens, target, lang)

reinsert_markup(c, tokens, target, interpolation_gap, lang) ==
    IF tokens = <<>> THEN [c |-> c, exc |-> "TypeError", output |-> <<>>]
    ELSE reinsert_interpolated(
             tag_interpolate(IF target THEN fill_target(c, 0, Len(tokens)) ELSE c,
                             target, interpolation_gap),
             tokens, target, lang)

(***************************************************************************)
(* TransIns.reset and TransIns.test.                                       *)
(***************************************************************************)
DefaultThreshold == 5

DefaultGap == 2

FullScore == 10

\* reset that leaves the Tag Registry as it is
reset_keeping_registry(c) ==
    [c EXCEPT !.tag_map = EmptyDict,
              !.tokens = <<>>,
              !.no_token_tags = EmptyDict,
              !.nt_order = <<>>,
              !.tgt_tag_map = EmptyDict,
              !.tgt_tokens = <<>>,
              !.tgt_no_token_tags = EmptyDict,
              !.shared = {}]

\* the registry and the models are set to empty; the tokenizer group is not
\* touched
reset(c) ==
    [c EXCEPT !.tag_id_map = EmptyDict,
              !.tag_map = EmptyDict,
              !.tokens = <<>>,
              !.no_token_tags = EmptyDict,
              !.nt_order = <<>>,
              !.tgt_tag_map = EmptyDict,
              !.tgt_tokens = <<>>,
              !.tgt_no_token_tags = EmptyDict,
              !.shared = {}]

\* [(i, i, 1) for i in range(len(target_tokens))]
IdentityAlignment(n) == [i \in 1..n |-> <<i - 1, i - 1, FullScore>>]

\* reinsert_markup(target_tokens, target=True), then reset
test_reinsert(r) ==
    IF r.exc # "none" THEN r
    ELSE [c |-> reset(r.c), exc |-> "none", output |-> r.output]

test_migrate(m, target_tokens) ==
    IF m.exc # "none" THEN [c |-> m.c, exc |-> m.exc, output |-> <<>>]
    ELSE test_reinsert(reinsert_markup(m.c, target_tokens, TRUE, DefaultGap, "en"))

test_extract(e) ==
    IF e.exc # "none" THEN [c |-> e.c, exc |-> e.exc, output |-> <<>>]
    ELSE test_migrate(migrate_tags(e.c, IdentityAlignment(Len(e.c.tokens)),
                                   DefaultThreshold, FALSE),
                      e.c.tokens)

\* extract, migrate along the identity alignment, reinsert, reset; a raise
\* leaves the method before the reset
test(c, raw) == test_extract(extract_markup(c, raw, "en"))

(***************************************************************************)
(* The documents the model extracts: every forest of at most MaxNodes      *)
(* nodes (elements are named by their depth, so a parent and its child     *)
(* never share a name), the documents of the test suite, and the long      *)
(* documents: a root holding k sibling elements and then a nested pair.    *)
(***************************************************************************)
MaxNodes == 4

Leaves == {Text(1), Text(0), CommentNode, Elem("br", <<>>)}

NameAt(d) == IF d % 2 = 0 THEN "p" ELSE "b"

RECURSIVE Trees(_, _)
RECURSIVE Forests(_, _)

\* the trees of exactly n nodes whose root is at depth d
Trees(n, d) ==
    IF n = 0 THEN {}
    ELSE (IF n = 1 THEN Leaves ELSE {})
         \cup (IF n = 2 THEN {Elem("script", <<Text(1)>>)} ELSE {})
         \cup {Elem(NameAt(d), f) : f \in Forests(n - 1, d + 1)}

\* the forests of exactly n nodes whose roots are at depth d
Forests(n, d) ==
    IF n = 0 THEN {<<>>}
    ELSE UNION {{<<t>> \o f : t \in Trees(k, d), f \in Forests(n - k, d)} : k \in 1..n}

SmallDocs == UNION {Forests(n, 0) : n \in 0..MaxNodes}

LongDoc(k) ==
    <<Elem("d", [i \in 1..k |-> Elem("p", <<Text(1)>>)]
                \o <<Elem("x", <<Elem("y", <<Text(1)>>)>>)>>)>>

LongDocs == {LongDoc(k) : k \in 0..MaxSiblings}

\* src/tests/test_transins.py
SuiteDocs ==
    {<<Elem("h", <<Text(4)>>)>>,
     <<Elem("h", <<Text(2), Elem("br", <<>>), Text(1), Elem("img", <<>>), Text(1)>>)>>,
     <<Elem("h", <<Text(3), Elem("p", <<>>), Text(1)>>)>>,
     <<Elem("h", <<Text(3), Elem("script", <<Text(1)>>), Text(1)>>)>>,
     <<Elem("h", <<Elem("p", <<Text(3)>>), Text(0),
                   Elem("p", <<Elem("b", <<CommentNode, Text(1)>>)>>)>>)>>,
     <<Elem("br", <<>>), Elem("b", <<Text(1)>>), Text(3), Elem("br", <<>>)>>}

Docs == SmallDocs \cup LongDocs \cup SuiteDocs

RequestLanguages == {"en", "es", "fr"}

(***************************************************************************)
(* State: the attributes of one TransIns object, and the last call made on *)
(* it with the context it found, the exception it raised and its result;   *)
(* `prev` is the call made before the last one, with its exception and its *)
(* result.                                                                 *)
(***************************************************************************)
VARIABLES tag_id_map, tag_map, tokens, no_token_tags, nt_order,
          tgt_tag_map, tgt_tokens, tgt_no_token_tags, shared,
          languages, language_tokenizer_map,
          pre, call, exc, output, ncalls, prev

ctx_vars == <<tag_id_map, tag_map, tokens, no_token_tags, nt_order,
              tgt_tag_map, tgt_tokens, tgt_no_token_tags, shared,
              languages, language_tokenizer_map>>

vars == <<tag_id_map, tag_map, tokens, no_token_tags, nt_order,
          tgt_tag_map, tgt_tokens, tgt_no_token_tags, shared,
          languages, language_tokenizer_map,
          pre, call, exc, output, ncalls, prev>>

Ctx ==
    [tag_id_map |-> tag_id_map,
     tag_map |-> tag_map,
     tokens |-> tokens,
     no_token_tags |-> no_token_tags,
     nt_order |-> nt_order,
     tgt_tag_map |-> tgt_tag_map,
     tgt_tokens |-> tgt_tokens,
     tgt_no_token_tags |-> tgt_no_token_tags,
     shared |-> shared,
     languages |-> languages,
     language_tokenizer_map |-> language_tokenizer_map]

Install(c) ==
    /\ tag_id_map' = c.tag_id_map
    /\ tag_map' = c.tag_map
    /\ tokens' = c.tokens
    /\ no_token_tags' = c.no_token_tags
    /\ nt_order' = c.nt_order
    /\ tgt_tag_map' = c.tgt_tag_map
    /\ tgt_tokens' = c.tgt_tokens
    /\ tgt_no_token_tags' = c.tgt_no_token_tags
    /\ shared' = c.shared
    /\ languages' = c.languages
    /\ language_tokenizer_map' = c.language_tokenizer_map

NoCall ==
    [op |-> "none", raw |-> <<>>, lang |-> "", alignments |-> <<>>, threshold |-> 0,
     force_migrate |-> FALSE, tokens |-> <<>>, target |-> FALSE, interpolation_gap |-> 0,
     tokenizer |-> TokenizerObject("", <<>>, FALSE, "none")]

\* the state a call leaves: its context, exception and result
Returned(c, e, out, rec) ==
    /\ Install(c)
    /\ exc' = e
    /\ output' = out
    /\ pre' = Ctx
    /\ call' = rec
    /\ ncalls' = ncalls + 1
    /\ prev' = [call |-> call, exc |-> exc, output |-> output]

InitWith(c) ==
    /\ tag_id_map = c.tag_id_map
    /\ tag_map = c.tag_map
    /\ tokens = c.tokens
    /\ no_token_tags = c.no_token_tags
    /\ nt_order = c.nt_order
    /\ tgt_tag_map = c.tgt_tag_map
    /\ tgt_tokens = c.tgt_tokens
    /\ tgt_no_token_tags = c.tgt_no_token_tags
    /\ shared = c.shared
    /\ languages = c.languages
    /\ language_tokenizer_map = c.language_tokenizer_map
    /\ pre = c
    /\ call = NoCall
    /\ exc = "none"
    /\ output = <<>>
    /\ ncalls = 0
    /\ prev = [call |-> NoCall, exc |-> "none", output |-> <<>>]

\* TransIns(): a newly constructed context
Init == InitWith(EmptyCtx)

Extract(raw, lang) ==
    LET r == extract_markup(Ctx, raw, lang)
    IN Returned(r.c, r.exc, <<>>, [NoCall EXCEPT !.op = "extract", !.raw = raw, !.lang = lang])

Test(raw) ==
    LET r == test(Ctx, raw)
    IN Returned(r.c, r.exc, r.output, [NoCall EXCEPT !.op = "test", !.raw = raw])

Migrate(alignments, threshold, force_migrate) ==
    LET r == migrate_tags(Ctx, alignments, threshold, force_migrate)
    IN Returned(r.c, r.exc, <<>>,
                [NoCall EXCEPT !.op = "migrate", !.alignments = alignments,
                               !.threshold = threshold,
                               !.force_migrate = force_migrate])

TagInterpolate(target, interpolation_gap) ==
    LET r == tag_interpolate(Ctx, target, interpolation_gap)
    IN Returned(r.c, r.exc, <<>>,
                [NoCall EXCEPT !.op = "interpolate", !.target = target,
                               !.interpolation_gap = interpolation_gap])

Reinsert(toks, target, interpolation_gap, lang) ==
    LET r == reinsert_markup(Ctx, toks, target, interpolation_gap, lang)
    IN Returned(r.c, r.exc, r.output,
                [NoCall EXCEPT !.op = "reinsert", !.tokens = toks, !.target = target,
                               !.interpolation_gap = interpolation_gap, !.lang = lang])

Reset == Returned(reset(Ctx), "none", <<>>, [NoCall EXCEPT !.op = "reset"])

\* self.tokenizer.add_tokenizer(tokenizer)
AddTokenizer(tokenizer) ==
    LET g == add_tokenizer(Group(Ctx), tokenizer)
    IN Returned([Ctx EXCEPT !.languages = g.languages,
                            !.language_tokenizer_map = g.language_tokenizer_map],
                "none", <<>>,
                [NoCall EXCEPT !.op = "add_tokenizer", !.tokenizer = tokenizer])

(***************************************************************************)
(* SpecDoc: one document handled by a newly constructed context.           *)
(***************************************************************************)
NextDoc ==
    /\ ncalls = 0
    /\ \/ \E raw \in Docs, lang \in RequestLanguages : Extract(raw, lang)
       \/ \E raw \in Docs : Test(raw)

SpecDoc == Init /\ [][NextDoc]_vars

(***************************************************************************)
(* SpecMigrate: a document is extracted by a new context and its tags are  *)
(* migrated along an alignment list of at most MaxAlign alignments.  The   *)
(* indices of an alignment range over the token indices and the index      *)
(* after the last token; its score is below, at, or above the threshold.   *)
(***************************************************************************)
MigrateDocs ==
    {<<Elem("h", <<Text(1), Elem("br", <<>>), Text(1)>>)>>,
     <<Elem("br", <<>>), Text(3), Elem("br", <<>>)>>,
     <<Elem("p", <<Text(1)>>), Elem("b", <<Text(1)>>)>>,
     <<Elem("h", <<Text(1), Elem("b", <<Text(1)>>)>>)>>,
     <<Elem("p", <<Text(1)>>), CommentNode>>,
     <<Elem("p", <<Text(1)>>), Elem("b", <<Text(1)>>), Elem("br", <<>>)>>,
     <<Elem("br", <<>>), Text(1), Elem("br", <<>>), Text(1)>>}

Scores == {DefaultThreshold - 1, DefaultThreshold, FullScore}

AlignmentsOver(n) == (0..n) \X (0..n) \X Scores

AlignmentLists(n) == UNION {[1..k -> AlignmentsOver(n)] : k \in 0..MaxAlign}

NextMigrate ==
    \/ /\ ncalls = 0
       /\ \E raw \in MigrateDocs : Extract(raw, "en")
    \/ /\ ncalls = 1
       /\ call.op = "extract"
       /\ \E alignments \in AlignmentLists(Len(tokens)), force_migrate \in BOOLEAN :
             Migrate(alignments, DefaultThreshold, force_migrate)

SpecMigrate == Init /\ [][NextMigrate]_vars

(***************************************************************************)
(* SpecAccumulate: a document is extracted by a new context and            *)
(* migrate_tags is called up to MaxCalls times on it, with no reset        *)
(* between the calls, each time along at most one alignment.  A call that  *)
(* raised AttributeError leaves the context as it was at the raise, and    *)
(* the caller may call again; any other exception ends the sequence.       *)
(***************************************************************************)
MaxCalls == 2

ShortAlignmentLists(n) == {<<>>} \cup {<<a>> : a \in AlignmentsOver(n)}

NextAccumulate ==
    \/ /\ ncalls = 0
       /\ \E raw \in MigrateDocs : Extract(raw, "en")
    \/ /\ ncalls \in 1..MaxCalls
       /\ exc \in {"none", "AttributeError"}
       /\ \E alignments \in ShortAlignmentLists(Len(tokens)), force_migrate \in BOOLEAN :
             Migrate(alignments, DefaultThreshold, force_migrate)

SpecAccumulate == Init /\ [][NextAccumulate]_vars

(***************************************************************************)
(* SpecInterpolate: tag_interpolate on a map set by the caller, as the     *)
(* test suite does (transins.tgt_tag_map = {...}; tag_interpolate()).  The *)
(* keys are any subset of 0..MaxKey, so the maps are dense, start after 0, *)
(* or miss an index; the entries are lists over TagIds 1 and 2.            *)
(***************************************************************************)
TagLists == {<<>>, <<1>>, <<2>>, <<1, 2>>}

TagMaps == UNION {[K -> TagLists] : K \in SUBSET (0..MaxKey)}

InterpolateRegistry == (1 :> Fragment("p", "open") @@ 2 :> Fragment("b", "open"))

InitInterpolate ==
    \E target \in BOOLEAN, d \in TagMaps :
        InitWith([EmptyCtx EXCEPT ![MapSide(target)] = d,
                                  !.tag_id_map = InterpolateRegistry])

NextInterpolate ==
    /\ ncalls = 0
    /\ \E target \in BOOLEAN, interpolation_gap \in 0..MaxGap :
          TagInterpolate(target, interpolation_gap)

SpecInterpolate == InitInterpolate /\ [][NextInterpolate]_vars

(***************************************************************************)
(* SpecReinsert: one or two documents are extracted by a new context with  *)
(* no reset between them, the tags may be migrated, and the markup is      *)
(* reinserted into target tokens with the default interpolation gap or     *)
(* with none; a reinsertion that returned may be called once more with the *)
(* same arguments.                                                         *)
(***************************************************************************)
ReinsertDocs ==
    {<<>>,
     <<CommentNode>>,
     <<Elem("p", <<Text(1)>>)>>,
     <<Elem("p", <<Text(1)>>), Elem("br", <<>>)>>,
     <<Elem("h", <<Text(1), Elem("b", <<Text(1)>>)>>)>>,
     <<Elem("p", <<Text(1)>>), Elem("b", <<Text(1)>>), Text(1)>>,
     <<Elem("p", <<Text(1)>>), Elem("br", <<>>),
       Elem("b", <<Elem("br", <<>>), Text(1)>>)>>,
     <<Text(2), Elem("br", <<>>), Text(1), Elem("br", <<>>), Text(1)>>}

ReinsertAlignments ==
    {<<>>, <<<<0, 0, FullScore>>>>, <<<<0, 1, FullScore>>>>, <<<<0, 2, FullScore>>>>,
     <<<<0, 0, FullScore>>, <<1, 1, FullScore>>>>,
     <<<<0, 0, FullScore>>, <<0, 2, FullScore>>>>,
     <<<<0, 0, FullScore>>, <<2, 1, DefaultThreshold - 1>>,
       <<3, 1, DefaultThreshold - 1>>>>}

TargetTokens == {<<>>, <<"en">>, <<"en", "en">>, <<"en", "en", "en">>}

NextReinsert ==
    \/ /\ ncalls = 0 \/ (ncalls = 1 /\ call.op = "extract")
       /\ exc = "none"
       /\ \E raw \in ReinsertDocs : Extract(raw, "en")
    \/ /\ call.op = "extract"
       /\ exc = "none"
       /\ \E alignments \in ReinsertAlignments :
             Migrate(alignments, DefaultThreshold, FALSE)
    \/ /\ call.op \in {"extract", "migrate"}
       /\ exc = "none"
       /\ \E toks \in TargetTokens, target \in BOOLEAN, lang \in {"en", "fr"},
             interpolation_gap \in {0, DefaultGap} :
             Reinsert(toks, target, interpolation_gap, lang)
    \/ /\ call.op = "reinsert"
       /\ prev.call.op # "reinsert"
       /\ exc = "none"
       /\ Reinsert(call.tokens, call.target, call.interpolation_gap, call.lang)

SpecReinsert == Init /\ [][NextReinsert]_vars

(***************************************************************************)
(* SpecLifecycle: up to MaxOps calls on one context, in any order:         *)
(* extract (in a registered or an unregistered language), migrate,         *)
(* interpolate, reinsert and reset.  A call that raised leaves the context *)
(* as it was at the raise, and the next call finds it so.                  *)
(***************************************************************************)
MaxOps == 5

LifeDocs ==
    {<<Elem("p", <<Text(1)>>)>>,
     <<Elem("h", <<Text(1), Elem("br", <<>>), Text(1)>>)>>}

LifeAlignments == {<<>>, <<<<0, 0, FullScore>>>>, <<<<0, 1, FullScore>>>>}

NextLifecycle ==
    /\ ncalls < MaxOps
    /\ \/ \E raw \in LifeDocs, lang \in {"en", "fr"} : Extract(raw, lang)
       \/ \E alignments \in LifeAlignments : Migrate(alignments, DefaultThreshold, FALSE)
       \/ TagInterpolate(TRUE, DefaultGap)
       \/ \E toks \in {<<"en">>, <<"en", "en">>} : Reinsert(toks, TRUE, DefaultGap, "en")
       \/ Reset

SpecLifecycle == Init /\ [][NextLifecycle]_vars

(***************************************************************************)
(* SpecTokenizer: a context is constructed with a tokenizer of the caller  *)
(* or with the default one, up to MaxRegistrations further tokenizers are  *)
(* added to its group, and a document is extracted.  The tokenizers        *)
(* declare no language, one, two, or one twice; their tokenize and their   *)
(* detokenize are implemented or not.  The constructor accepts a tokenizer *)
(* only if it declares a language and implements both (lines 35-44).       *)
(***************************************************************************)
MaxRegistrations == 2

LanguageLists == {<<>>, <<"fr">>, <<"en">>, <<"fr", "en">>, <<"fr", "fr">>}

Tokenizers ==
    {TokenizerObject(name, langs, tokenize, detokenize) :
        name \in {"a", "b"}, langs \in LanguageLists,
        tokenize \in BOOLEAN, detokenize \in {"own", "none"}}

ConstructorTokenizers ==
    {Moses} \cup {t \in Tokenizers :
                     t.languages # <<>> /\ t.tokenize /\ t.detokenize = "own"}

TokenizerDocs ==
    {<<Text(1)>>,
     <<Elem("p", <<Text(1)>>)>>,
     <<Elem("p", <<Text(1), Elem("b", <<Text(1)>>)>>)>>,
     <<CommentNode>>}

InitTokenizer == \E tokenizer \in ConstructorTokenizers : InitWith(NewCtx(tokenizer))

NextTokenizer ==
    \/ /\ ncalls < MaxRegistrations
       /\ call.op # "extract"
       /\ \E tokenizer \in Tokenizers : AddTokenizer(tokenizer)
    \/ /\ call.op # "extract"
       /\ \E raw \in TokenizerDocs, lang \in RequestLanguages : Extract(raw, lang)

SpecTokenizer == InitTokenizer /\ [][NextTokenizer]_vars

(***************************************************************************)
(* Every operation of the context, on the inputs of the specifications     *)
(* above.                                                                  *)
(***************************************************************************)
Next ==
    \/ NextDoc
    \/ NextMigrate
    \/ NextAccumulate
    \/ NextReinsert
    \/ NextLifecycle
    \/ NextTokenizer
    \/ NextInterpolate
    \/ (ncalls > 0 /\ Reset)

Spec == Init /\ [][Next]_vars

(***************************************************************************)
(* The element structure of a document and of an output: the opening and   *)
(* closing tags in document order.  Text, spaces and comments carry no     *)
(* element; a fragment that renders a whole element opens and closes it.   *)
(***************************************************************************)
Ev(kind, name) == [kind |-> kind, name |-> name]

RECURSIVE NodeEvents(_)
RECURSIVE ForestEvents(_, _)

ForestEvents(nodes, i) ==
    IF i > Len(nodes) THEN <<>>
    ELSE NodeEvents(nodes[i]) \o ForestEvents(nodes, i + 1)

NodeEvents(node) ==
    IF node.type = "elem"
    THEN <<Ev("open", node.name)>> \o ForestEvents(node.children, 1)
                                   \o <<Ev("close", node.name)>>
    ELSE <<>>

InputEvents(raw) == ForestEvents(raw, 1)

UnitEvents(unit) ==
    IF unit.u \in {"open", "close"} THEN <<Ev(unit.u, unit.frag.name)>>
    ELSE IF unit.u = "frag" /\ unit.frag.form # "comment"
    THEN <<Ev("open", unit.frag.name), Ev("close", unit.frag.name)>>
    ELSE <<>>

RECURSIVE OutputEvents(_, _)
OutputEvents(out, i) ==
    IF i > Len(out) THEN <<>>
    ELSE UnitEvents(out[i]) \o OutputEvents(out, i + 1)

\* every element of the forest is translatable and holds at least one token
RECURSIVE Tokens(_)
RECURSIVE ForestTokens(_, _)

ForestTokens(nodes, i) ==
    IF i > Len(nodes) THEN 0 ELSE Tokens(nodes[i]) + ForestTokens(nodes, i + 1)

Tokens(node) == IF node.type = "text" THEN node.n ELSE ForestTokens(node.children, 1)

RECURSIVE Plain(_)
Plain(node) ==
    \/ node.type = "text"
    \/ /\ node.type = "elem"
       /\ node.name \notin dnt
       /\ Tokens(node) > 0
       /\ \A i \in DOMAIN node.children : Plain(node.children[i])

\* a well-nested tree: one root element, no do-not-translate element, no
\* element without tokens, no comment
RoundTripInput(raw) == Len(raw) = 1 /\ raw[1].type = "elem" /\ Plain(raw[1])

\* C1 (as stated): after test on a new context, for a well-nested tree with
\* no do-not-translate and no empty element, the call returns and the element
\* structure of the output is the element structure of the input.
C1_RoundTrip ==
    (call.op = "test" /\ RoundTripInput(call.raw))
        => (exc = "none" /\ OutputEvents(output, 1) = InputEvents(call.raw))

\* C1: the failing round trip is reached: the document
\* <d> <p>w</p> x5 <x><y>w</y></x> </d> comes back with <y> around <x>.
C1_Swapped ==
    /\ call.op = "test"
    /\ call.raw = LongDoc(5)
    /\ exc = "none"
    /\ OutputEvents(output, 1) # InputEvents(call.raw)
    /\ \E i \in DOMAIN output :
          /\ output[i].u = "open" /\ output[i].frag.name = "y"
          /\ \E j \in DOMAIN output :
                j > i /\ output[j].u = "open" /\ output[j].frag.name = "x"

(***************************************************************************)
(* Extraction on a new context.                                            *)
(***************************************************************************)
Extracted == call.op = "extract" /\ exc = "none"

IdsOf(d) == UNION {Range(d[k]) : k \in DOMAIN d}

\* C2 (as stated): after extract, TagId 0 is absent from the registry and
\* from every TagMap and NoTokenMap entry, and every TagId of an entry has a
\* registry entry.
C2_RootDiscarded ==
    Extracted =>
        /\ 0 \notin DOMAIN tag_id_map
        /\ 0 \notin IdsOf(tag_map) \cup IdsOf(no_token_tags)
        /\ IdsOf(tag_map) \cup IdsOf(no_token_tags) \subseteq DOMAIN tag_id_map

\* C2 (amended): after extract on a new context, TagId 0 is absent from the
\* registry but is the last TagId of every TagMap entry; it is in a
\* NoTokenMap entry exactly when the document yields no token; every other
\* TagId of an entry has a registry entry.
C2_RootKeptInMaps ==
    Extracted =>
        /\ 0 \notin DOMAIN tag_id_map
        /\ \A k \in DOMAIN tag_map :
              tag_map[k] # <<>> /\ tag_map[k][Len(tag_map[k])] = 0
        /\ (0 \in IdsOf(no_token_tags)) <=> (tokens = <<>>)
        /\ (IdsOf(tag_map) \cup IdsOf(no_token_tags)) \ {0} \subseteq DOMAIN tag_id_map

\* C2: the example of the claim, <h>this is a test</h>, has been extracted:
\* four tokens, each tagged [1, 0], and a registry holding TagId 1 alone.
C2_SimpleExtracted ==
    /\ Extracted
    /\ call.raw = <<Elem("h", <<Text(4)>>)>>
    /\ Len(tokens) = 4
    /\ tag_map = [k \in 0..3 |-> <<1, 0>>]
    /\ DOMAIN tag_id_map = {1}

(***************************************************************************)
(* The document read independently of the extraction: TagIds are given in  *)
(* document order, 0 to the document object, then one to every comment and *)
(* every element met; the inside of a do-not-translate element and of an   *)
(* element without text is not entered.                                    *)
(***************************************************************************)
Verbatim(node) == (node.children # <<>> /\ ~HasText(node)) \/ node.name \in dnt

RECURSIVE Ancestry(_, _, _, _, _)

AncestryAfter(r, nodes, i, anc) == Ancestry(nodes, i + 1, r.next, anc, r.acc)

\* the ancestor TagIds of every token of nodes[i..], appended to acc; next
\* is the TagId the next comment or element gets, anc the TagIds of the
\* elements that enclose the nodes
Ancestry(nodes, i, next, anc, acc) ==
    IF i > Len(nodes) THEN [next |-> next, acc |-> acc]
    ELSE IF nodes[i].type = "text"
    THEN Ancestry(nodes, i + 1, next, anc, acc \o [k \in 1..nodes[i].n |-> anc])
    ELSE IF nodes[i].type = "comment" \/ Verbatim(nodes[i])
    THEN Ancestry(nodes, i + 1, next + 1, anc, acc)
    ELSE AncestryAfter(Ancestry(nodes[i].children, 1, next + 1, anc \cup {next}, acc),
                       nodes, i, anc)

\* entry k is the set of TagIds of the elements enclosing token k - 1, the
\* document object (TagId 0) among them
Ancestors(raw) == Ancestry(raw, 1, 1, {0}, <<>>).acc

\* C14: after extract on a new context, the source TagMap has one entry per
\* token, and the entry of token i holds the TagId of every element that
\* encloses the text node of token i (the document object, TagId 0, among
\* them), of no other element, and each once.
C14_AncestorsTagged ==
    (Extracted /\ pre = EmptyCtx) =>
        /\ Len(tokens) = Len(Ancestors(call.raw))
        /\ DOMAIN tag_map = 0..(Len(tokens) - 1)
        /\ \A i \in DOMAIN tag_map :
              /\ Range(tag_map[i]) = Ancestors(call.raw)[i + 1]
              /\ Len(tag_map[i]) = Cardinality(Range(tag_map[i]))

\* C14: <p>a<b>b</b></p> has been extracted: token 0 lies in <p> (TagId 1),
\* token 1 in <b> (TagId 2) inside <p>.
C14_NestedExtracted ==
    /\ Extracted /\ pre = EmptyCtx
    /\ call.raw = <<Elem("p", <<Text(1), Elem("b", <<Text(1)>>)>>)>>
    /\ tag_map = (0 :> <<1, 0>> @@ 1 :> <<2, 1, 0>>)

RECURSIVE Recorded(_, _, _, _, _)

\* an element that was entered and gave no token is recorded at the number
\* of tokens before it
RecordedAfter(r, nodes, i, id, before) ==
    Recorded(nodes, i + 1, r.next, r.count,
             IF r.count = before THEN r.acc \cup {<<id, before>>} ELSE r.acc)

\* the pairs <<TagId, anchor>> of the nodes of nodes[i..] that hold no token
\* and are not inside a do-not-translate or text-less element, added to acc;
\* count is the number of tokens before nodes[i]
Recorded(nodes, i, next, count, acc) ==
    IF i > Len(nodes) THEN [next |-> next, count |-> count, acc |-> acc]
    ELSE IF nodes[i].type = "text"
    THEN Recorded(nodes, i + 1, next, count + nodes[i].n, acc)
    ELSE IF nodes[i].type = "comment" \/ Verbatim(nodes[i])
    THEN Recorded(nodes, i + 1, next + 1, count, acc \cup {<<next, count>>})
    ELSE RecordedAfter(Recorded(nodes[i].children, 1, next + 1, count, acc),
                       nodes, i, next, count)

\* the walk from the document object, which is TagId 0
Expected(raw) == Recorded(<<Soup(raw)>>, 1, 0, 0, {})

Yield(node) == Recorded(<<node>>, 1, 0, 0, {}).count

\* the comments and the elements of nodes[i..], at any depth, that are
\* do-not-translate, have children but no text, or yield no token
RECURSIVE NoTokenNodes(_, _)
NoTokenNodes(nodes, i) ==
    IF i > Len(nodes) THEN 0
    ELSE (IF nodes[i].type = "comment" THEN 1
          ELSE IF nodes[i].type = "elem" /\ (Verbatim(nodes[i]) \/ Yield(nodes[i]) = 0)
          THEN 1 ELSE 0)
         + NoTokenNodes(nodes[i].children, 1)
         + NoTokenNodes(nodes, i + 1)

Placements(d) == {<<d[a][j], a>> : <<a, j>> \in {x \in (DOMAIN d) \X (0..31) : x[2] \in DOMAIN d[x[1]]}}

\* C15 (as stated): after extract on a new context, every comment and every
\* element of the document that is do-not-translate, has children but no
\* text, or yields no token has a TagId of its own in the source NoTokenMap.
C15_EveryNodeRecorded ==
    (Extracted /\ pre = EmptyCtx) =>
        Cardinality(IdsOf(no_token_tags) \ {0}) = NoTokenNodes(call.raw, 1)

\* C15 (amended): after extract on a new context, the comments and the
\* elements without tokens that are not inside a do-not-translate element or
\* an element without text (the document object counts as an element, with
\* TagId 0) are exactly the TagIds of the source NoTokenMap: each is in one
\* entry, once, anchored at the number of tokens before it, which lies in
\* [0, token count]; none of them is in a TagMap entry or adds a token.
C15_NoTokenRecorded ==
    (Extracted /\ pre = EmptyCtx) =>
        /\ Placements(no_token_tags) = Expected(call.raw).acc
        /\ \A a \in DOMAIN no_token_tags :
              Len(no_token_tags[a]) = Cardinality(Range(no_token_tags[a]))
        /\ \A t \in IdsOf(no_token_tags) :
              Cardinality({a \in DOMAIN no_token_tags : t \in Range(no_token_tags[a])}) = 1
        /\ DOMAIN no_token_tags \subseteq 0..Len(tokens)
        /\ IdsOf(no_token_tags) \cap IdsOf(tag_map) = {}
        /\ Len(tokens) = Expected(call.raw).count

\* C15: <h>a b<br>c<img>d</h> has been extracted: <br> (TagId 2) is anchored
\* after two tokens and <img> (TagId 3) after three, and <h> (TagId 1), which
\* holds tokens, is in no NoTokenMap entry.
C15_SelfClosingAnchored ==
    /\ Extracted /\ pre = EmptyCtx
    /\ call.raw = <<Elem("h", <<Text(2), Elem("br", <<>>), Text(1), Elem("img", <<>>),
                                Text(1)>>)>>
    /\ no_token_tags = (2 :> <<2>> @@ 3 :> <<3>>)
    /\ Len(tokens) = 4

(***************************************************************************)
(* Migration.  `pre` is the context migrate_tags found: the source maps of *)
(* the extracted document and empty target maps.                           *)
(***************************************************************************)
Migrated == call.op = "migrate"

\* the positions of the alignments that reach the threshold
Accepted == {i \in DOMAIN call.alignments : call.alignments[i][3] >= call.threshold}

AcceptedSources == {call.alignments[i][1] : i \in Accepted}

\* the source anchors no accepted alignment has as its source index
Unaligned == DOMAIN pre.no_token_tags \ AcceptedSources

\* the accepted source index the fallback chooses for anchor a
Chosen(a) ==
    IF \E s \in AcceptedSources : s >= a
    THEN Min({s \in AcceptedSources : s >= a})
    ELSE Max(AcceptedSources)

HeldAt(d, j, ids) == j \in DOMAIN d /\ Range(ids) \subseteq Range(d[j])

\* C3 (as stated): when migrate returns, every unaligned anchor for which an
\* accepted alignment exists has its TagIds in the target NoTokenMap at a
\* target index that the chosen accepted source index is aligned to.
C3_FallbackAtTarget ==
    (Migrated /\ exc = "none") =>
        \A a \in Unaligned :
            AcceptedSources # {} =>
                \E i \in Accepted :
                    /\ call.alignments[i][1] = Chosen(a)
                    /\ HeldAt(tgt_no_token_tags, call.alignments[i][2],
                              pre.no_token_tags[a])

\* C3: <h>a<br>b</h> migrated along [(0, 1, 1)]: the <br> anchored at source
\* index 1 falls back to source index 0, which is aligned to target index 1,
\* and is stored at index 0.
C3_StoredAtSource ==
    /\ Migrated /\ exc = "none"
    /\ call.alignments = <<<<0, 1, FullScore>>>>
    /\ pre.no_token_tags = (1 :> <<2>>)
    /\ tgt_no_token_tags = (0 :> <<2>>)

\* C4 (as stated): migrate on a context produced by extract returns
\* normally, whatever the alignment list and force_migrate are.
C4_MigrateReturns == Migrated => exc = "none"

\* C4: <h>a<br>b</h> migrated along the empty alignment list raises
\* AttributeError: the anchor index 1 is a key of the registry, and
\* unmigrated_tag_ids is still the registry's key view.
C4_Raised ==
    /\ Migrated
    /\ call.alignments = <<>>
    /\ DOMAIN pre.tag_id_map = {1, 2}
    /\ pre.no_token_tags = (1 :> <<2>>)
    /\ exc = "AttributeError"

\* C5 (as stated): when no alignment is accepted and migrate returns, the
\* TagIds of every source anchor are in the target NoTokenMap at index 0.
C5_AllAtZero ==
    (Migrated /\ exc = "none" /\ Accepted = {}) =>
        \A a \in DOMAIN pre.no_token_tags :
            HeldAt(tgt_no_token_tags, 0, pre.no_token_tags[a])

\* C5: <br>a b c<br> migrated along the empty alignment list: the anchors 0
\* and 3 hold TagIds 1 and 2, and the target NoTokenMap ends as {0: [2]}.
C5_Overwritten ==
    /\ Migrated /\ exc = "none"
    /\ call.alignments = <<>>
    /\ pre.no_token_tags = (0 :> <<1>> @@ 3 :> <<2>>)
    /\ tgt_no_token_tags = (0 :> <<2>>)

\* C6: with force_migrate false and empty target maps before the call,
\* after migrate the target TagMap holds TagId t at index j exactly when an
\* alignment (i, j, score) with score >= threshold has t in the source
\* TagMap[i], and the TagIds of the source NoTokenMap[i] of every such
\* alignment are in the target NoTokenMap[j].
C6_Projection ==
    (Migrated /\ ~call.force_migrate
        /\ pre.tgt_tag_map = EmptyDict /\ pre.tgt_no_token_tags = EmptyDict) =>
        /\ \A j \in 0..Len(pre.tokens) : \A t \in DOMAIN pre.tag_id_map \cup {0} :
              (j \in DOMAIN tgt_tag_map /\ t \in Range(tgt_tag_map[j]))
              <=> \E i \in Accepted :
                     /\ call.alignments[i][2] = j
                     /\ call.alignments[i][1] \in DOMAIN pre.tag_map
                     /\ t \in Range(pre.tag_map[call.alignments[i][1]])
        /\ DOMAIN tgt_tag_map \subseteq 0..Len(pre.tokens)
        /\ IdsOf(tgt_tag_map) \subseteq DOMAIN pre.tag_id_map \cup {0}
        /\ \A i \in Accepted :
              call.alignments[i][1] \in DOMAIN pre.no_token_tags =>
                  HeldAt(tgt_no_token_tags, call.alignments[i][2],
                         pre.no_token_tags[call.alignments[i][1]])

\* C6: <h>a<b>b</b></h> migrated along [(1, 0, 0.5), (0, 1, 0.4)]: the
\* alignment at the threshold moved the tags of token 1 to token 0, the one
\* below it moved nothing.
C6_ThresholdAccepted ==
    /\ Migrated /\ exc = "none" /\ ~call.force_migrate
    /\ call.alignments = <<<<1, 0, DefaultThreshold>>, <<0, 1, DefaultThreshold - 1>>>>
    /\ pre.tag_map = (0 :> <<1, 0>> @@ 1 :> <<2, 1, 0>>)
    /\ tgt_tag_map = (0 :> <<0, 1, 2>>)

\* the positions of the alignments below the threshold
Deferred == DOMAIN call.alignments \ Accepted

\* the TagIds of the source TagMap entries of the accepted alignments
MigratedIds ==
    UNION {Range(pre.tag_map[call.alignments[i][1]]) :
              i \in {k \in Accepted : call.alignments[k][1] \in DOMAIN pre.tag_map}}

\* TagId t of the source TagMap entry of the deferred alignment at position
\* i was migrated by no accepted alignment
Forced(i, t) ==
    /\ i \in Deferred
    /\ call.alignments[i][1] \in DOMAIN pre.tag_map
    /\ t \in Range(pre.tag_map[call.alignments[i][1]]) \ MigratedIds
    /\ t # 0

\* C20 (as stated): when migrate returns on empty target maps with
\* force_migrate true, every registered TagId of the source TagMap entry of
\* a deferred alignment (i, j) that no accepted alignment migrated is in the
\* target TagMap entry j, and a TagId is in a target TagMap entry only
\* through an accepted alignment or through such a deferred one; with
\* force_migrate false the target TagMap holds what the accepted alignments
\* brought and nothing else.
C20_ForcedMigration ==
    (Migrated /\ exc = "none" /\ pre.tgt_tag_map = EmptyDict) =>
        /\ call.force_migrate =>
              \A i \in Deferred : \A t \in DOMAIN pre.tag_id_map :
                  Forced(i, t) =>
                      /\ call.alignments[i][2] \in DOMAIN tgt_tag_map
                      /\ t \in Range(tgt_tag_map[call.alignments[i][2]])
        /\ \A j \in DOMAIN tgt_tag_map : \A t \in Range(tgt_tag_map[j]) :
              \/ \E i \in Accepted :
                    /\ call.alignments[i][2] = j
                    /\ call.alignments[i][1] \in DOMAIN pre.tag_map
                    /\ t \in Range(pre.tag_map[call.alignments[i][1]])
              \/ /\ call.force_migrate
                 /\ \E i \in Deferred : call.alignments[i][2] = j /\ Forced(i, t)

\* C20: <p>a</p><b>b</b><br> migrated along [(0, 0, 1), (1, 1, 0.4)] with
\* force_migrate: <b> is TagId 2 and the <br> is anchored at token index 2;
\* the unaligned anchor 2 takes TagId 2 out of the unmigrated TagIds, and the
\* deferred alignment brings nothing to target index 1.
C20_AnchorIndexDropsTag ==
    /\ Migrated /\ exc = "none"
    /\ call.force_migrate
    /\ call.alignments = <<<<0, 0, FullScore>>, <<1, 1, DefaultThreshold - 1>>>>
    /\ pre.tag_map = (0 :> <<1, 0>> @@ 1 :> <<2, 0>>)
    /\ pre.no_token_tags = (2 :> <<3>>)
    /\ 1 \notin DOMAIN tgt_tag_map

\* every placement (index, TagId) of map d is a placement of map e
Kept(d, e) == \A j \in DOMAIN d : HeldAt(e, j, d[j])

\* C13 (as stated): when migrate returns, every placement the target TagMap
\* and the target NoTokenMap held before the call is still held after it.
C13_Accumulates ==
    (Migrated /\ exc = "none") =>
        /\ Kept(pre.tgt_tag_map, tgt_tag_map)
        /\ Kept(pre.tgt_no_token_tags, tgt_no_token_tags)

\* C13: <br>a b c<br> migrated along [(0, 0, 1)] holds the target NoTokenMap
\* {0: [1, 2]}; a second migrate along the empty alignment list returns and
\* leaves {0: [2]}: the placement of TagId 1 at index 0 is gone.
C13_EarlierPlacementLost ==
    /\ Migrated /\ exc = "none"
    /\ prev.call.op = "migrate"
    /\ call.alignments = <<>>
    /\ pre.tgt_no_token_tags = (0 :> <<1, 2>>)
    /\ tgt_no_token_tags = (0 :> <<2>>)

(***************************************************************************)
(* Interpolation.  Before is the map tag_interpolate found, After the map  *)
(* it left.                                                                *)
(***************************************************************************)
Interpolated == call.op = "interpolate"

Before == pre[MapSide(call.target)]

After == Ctx[MapSide(call.target)]

Dense(d) == DOMAIN d # {} /\ DOMAIN d = 0..Max(DOMAIN d)

Contiguous(d) == DOMAIN d # {} /\ DOMAIN d = Min(DOMAIN d)..Max(DOMAIN d)

Filled(d, k) == k \in DOMAIN d /\ d[k] # <<>>

\* lo..hi is a maximal run of empty entries of d
EmptyRun(d, lo, hi) ==
    /\ lo <= hi
    /\ \A k \in lo..hi : k \in DOMAIN d /\ d[k] = <<>>
    /\ ~(lo - 1 \in DOMAIN d /\ d[lo - 1] = <<>>)
    /\ ~(hi + 1 \in DOMAIN d /\ d[hi + 1] = <<>>)

Spans(d) == {r \in (DOMAIN d) \X (DOMAIN d) : EmptyRun(d, r[1], r[2])}

\* C7 (as stated): on a dense map the call returns, every interior gap of
\* length <= interpolation_gap has each entry set to the intersection of the
\* tag sets before and after it, and every longer gap is unchanged.
C7_InteriorGaps ==
    (Interpolated /\ Dense(Before)) =>
        /\ exc = "none"
        /\ \A r \in Spans(Before) :
              (Filled(Before, r[1] - 1) /\ Filled(Before, r[2] + 1)) =>
                  \A k \in r[1]..r[2] :
                      IF r[2] - r[1] + 1 <= call.interpolation_gap
                      THEN Range(After[k]) = Range(Before[r[1] - 1])
                                                 \cap Range(Before[r[2] + 1])
                      ELSE After[k] = <<>>

\* C7: {0:[1], 1:[], 2:[], 3:[1], 4:[], 5:[1]} interpolated with gap 1: the
\* gap at 4 has length 1 and [1] on both sides, and stays empty after the
\* gap of length 2 before it.
C7_LaterGapSkipped ==
    /\ Interpolated /\ exc = "none"
    /\ call.interpolation_gap = 1
    /\ Before = (0 :> <<1>> @@ 1 :> <<>> @@ 2 :> <<>> @@ 3 :> <<1>> @@ 4 :> <<>>
                   @@ 5 :> <<1>>)
    /\ After = Before

\* C8 (as stated): on a map with contiguous keys, whatever the first key,
\* the call returns, a gap of length <= interpolation_gap at the first key
\* is filled with the tag set of the key after it, and one at the last key
\* with the tag set of the key before it.
C8_BoundaryGaps ==
    (Interpolated /\ Contiguous(Before)) =>
        /\ exc = "none"
        /\ \A r \in Spans(Before) :
              r[2] - r[1] + 1 <= call.interpolation_gap =>
                  /\ (r[1] = Min(DOMAIN Before) /\ Filled(Before, r[2] + 1)) =>
                        \A k \in r[1]..r[2] : After[k] = Before[r[2] + 1]
                  /\ (r[2] = Max(DOMAIN Before) /\ Filled(Before, r[1] - 1)) =>
                        \A k \in r[1]..r[2] : After[k] = Before[r[1] - 1]

\* C8: {1: [], 2: [1]} interpolated with gap 2 raises KeyError: the gap
\* starts at the first key, which is not 0, and the entry before it is read.
C8_FirstKeyNotZero ==
    /\ Interpolated
    /\ call.interpolation_gap = 2
    /\ Before = (1 :> <<>> @@ 2 :> <<1>>)
    /\ exc = "KeyError"

\* an index before the last key is missing
Sparse(d) == DOMAIN d # {} /\ DOMAIN d # 0..Max(DOMAIN d)

\* C9 (as stated): on a map that misses an index the call returns, adds no
\* key, and leaves every gap next to a missing index empty.
C9_SparseKeys ==
    (Interpolated /\ Sparse(Before)) =>
        /\ exc = "none"
        /\ DOMAIN After = DOMAIN Before
        /\ \A r \in Spans(Before) :
              (r[1] - 1 \in (0..Max(DOMAIN Before)) \ DOMAIN Before
                  \/ r[2] + 1 \in (0..Max(DOMAIN Before)) \ DOMAIN Before) =>
                  \A k \in r[1]..r[2] : After[k] = <<>>

\* C9: {0: [1], 2: [], 3: [1]} interpolated with gap 1 raises KeyError: the
\* gap at 2 follows the missing index 1, whose entry is read.
C9_MissingIndexRead ==
    /\ Interpolated
    /\ call.interpolation_gap = 1
    /\ Before = (0 :> <<1>> @@ 2 :> <<>> @@ 3 :> <<1>>)
    /\ exc = "KeyError"

(***************************************************************************)
(* Reinsertion.                                                            *)
(***************************************************************************)
Reinserted == call.op = "reinsert"

\* the maps reinsert_markup walks: the side's TagMap after the fill of the
\* target indices and the interpolation, and the side's NoTokenMap
Walked ==
    tag_interpolate(IF call.target THEN fill_target(pre, 0, Len(call.tokens)) ELSE pre,
                    call.target, call.interpolation_gap)

\* the call has tokens in a registered language, the interpolation returns
\* and every token index has an entry
Reinsertable ==
    /\ Reinserted
    /\ call.tokens # <<>>
    /\ call.lang \in Languages
    /\ Walked.exc = "none"
    /\ \A i \in 0..(Len(call.tokens) - 1) : i \in DOMAIN Walked.c[MapSide(call.target)]

\* C10 (as stated): reinsertion returns normally whatever TagIds without a
\* registry entry the maps hold.
C10_MissingIdSkipped == Reinsertable => exc = "none"

\* C10: after extract_markup(""), extract_markup("<p>w</p>") the source maps
\* are TagMap {0: [1, 0]} and NoTokenMap {0: [0]} and the registry is
\* {1: "<p>"}; reinsert_markup(["w"], target=False) raises KeyError when it
\* emits the fragment of TagId 0 before the opening tag of TagId 1.
C10_FragmentBeforeOpening ==
    /\ Reinsertable
    /\ ~call.target
    /\ call.tokens = <<"en">>
    /\ DOMAIN pre.tag_id_map = {1}
    /\ pre.tag_map = (0 :> <<1, 0>>)
    /\ pre.no_token_tags = (0 :> <<0>>)
    /\ exc = "KeyError"

\* the NoTokenMap of the side that is reinserted
WalkedNoTokens == IF call.target THEN pre.tgt_no_token_tags ELSE pre.no_token_tags

\* the last n units of the output are the fragments of the TagIds ids
EndsWithFragments(out, ids) ==
    /\ Len(out) >= Len(ids)
    /\ \A j \in DOMAIN ids :
          /\ out[Len(out) - Len(ids) + j].u = "frag"
          /\ out[Len(out) - Len(ids) + j].id = ids[j]

\* C11 (as stated): when reinsertion returns and the NoTokenMap it used has
\* an entry keyed len(tokens), the output ends with the fragments of the
\* TagIds of that entry in ascending id order, whatever other keys the map
\* has.
C11_TrailingAppended ==
    (Reinserted /\ exc = "none" /\ Len(call.tokens) \in DOMAIN WalkedNoTokens) =>
        EndsWithFragments(output,
                          SortedSeq(Range(WalkedNoTokens[Len(call.tokens)])))

\* C11: "a b<br>c<br>d" migrated along [(0, 0, 1), (2, 1, 0.4), (3, 1, 0.4)]
\* leaves the target NoTokenMap {2: [1], 3: [2]}; reinsertion into two target
\* tokens returns the text alone: the entry keyed 2 is not the largest key
\* and no fragment is appended.
C11_TrailingSkipped ==
    /\ Reinserted /\ exc = "none"
    /\ call.target
    /\ Len(call.tokens) = 2
    /\ pre.tgt_no_token_tags = (2 :> <<1>> @@ 3 :> <<2>>)
    /\ \A i \in DOMAIN output : output[i].u # "frag"

\* the last two calls are reinsertions with the same arguments, and the
\* first of them returned
Repeated ==
    /\ Reinserted
    /\ prev.call = call
    /\ prev.exc = "none"

\* C12: a reinsert call that follows a returned reinsert call with the same
\* tokens, map side, interpolation gap and language on the same context
\* returns, with the output of the first call.
C12_Repeatable == Repeated => (exc = "none" /\ output = prev.output)

\* C12: <p>w</p> migrated along [(0, 2, 1)] and reinserted twice into three
\* target tokens: the first call added the entries 0 and 1 to the target
\* TagMap and filled them in place with the list of entry 2, and the second
\* call has returned.
C12_SecondCallOnFilledMap ==
    /\ Repeated
    /\ call.target
    /\ Len(call.tokens) = 3
    /\ exc = "none"
    /\ {<<"tgt_tag_map", 0>>, <<"tgt_tag_map", 1>>, <<"tgt_tag_map", 2>>} \in pre.shared
    /\ \E i \in DOMAIN output : output[i].u = "open"

(***************************************************************************)
(* The life of a context.                                                  *)
(***************************************************************************)
Models(c) ==
    <<c.tag_id_map, c.tokens, c.tag_map, c.no_token_tags,
      c.tgt_tokens, c.tgt_tag_map, c.tgt_no_token_tags>>

\* C16: extract with a language that is not in the tokenizer group raises
\* TypeError and leaves the Tag Registry, the source tokens and maps and the
\* target tokens and maps as they were before the call.
C16_UnsupportedLanguageFailsFast ==
    (call.op = "extract" /\ ~Supported(pre, call.lang)) =>
        /\ exc = "TypeError"
        /\ Models(Ctx) = Models(pre)
        /\ Ctx = pre

\* C16: extract in "fr" has been refused on a context that held an
\* extracted and migrated document, and the document is still there.
C16_RefusedOnUsedContext ==
    /\ call.op = "extract"
    /\ call.lang = "fr"
    /\ exc = "TypeError"
    /\ pre.tokens # <<>>
    /\ pre.tgt_tag_map # EmptyDict
    /\ Ctx = pre

\* C17: reset leaves the Tag Registry, the source and the target tokens and
\* maps empty and the tokenizer group as it was, whatever calls came before
\* it; and an extract that follows a reset leaves the context, and raises
\* the exception, that the same extract leaves and raises on a newly
\* constructed context.
C17_ResetClears ==
    /\ call.op = "reset" =>
          /\ exc = "none"
          /\ Models(Ctx) = Models(EmptyCtx)
          /\ Group(Ctx) = Group(pre)
    /\ (call.op = "extract" /\ prev.call.op = "reset") =>
          /\ Ctx = extract_markup(EmptyCtx, call.raw, call.lang).c
          /\ exc = extract_markup(EmptyCtx, call.raw, call.lang).exc

\* C17: <h>a<br>b</h> has been extracted after a reset of a context that
\* held a migrated document, and the TagIds start from 1 again.
C17_ExtractAfterReset ==
    /\ call.op = "extract" /\ exc = "none"
    /\ prev.call.op = "reset"
    /\ ncalls = 4
    /\ tag_map = (0 :> <<1, 0>> @@ 1 :> <<1, 0>>)
    /\ no_token_tags = (1 :> <<2>>)
    /\ tgt_tag_map = EmptyDict

(***************************************************************************)
(* The tokenizer group.                                                    *)
(***************************************************************************)
Registered == call.op = "add_tokenizer"

AcceptedRegistration == call.tokenizer.languages # <<>> /\ call.tokenizer.tokenize

\* C18: the language list of the group has no duplicates and is the key set
\* of the language-to-tokenizer map; an add_tokenizer call with a tokenizer
\* that declares no language or does not implement tokenize leaves both as
\* they were; any other call maps each declared language to the tokenizer
\* given (with the default detokenizer if it implements none), keeps the
\* tokenizer of every other language, and keeps the languages known before
\* in their order.
C18_GroupInvariant ==
    /\ Len(languages) = Cardinality(Range(languages))
    /\ Range(languages) = DOMAIN language_tokenizer_map
    /\ (Registered /\ ~AcceptedRegistration) => Group(Ctx) = Group(pre)
    /\ (Registered /\ AcceptedRegistration) =>
          /\ \A lang \in Range(call.tokenizer.languages) :
                /\ lang \in DOMAIN language_tokenizer_map
                /\ language_tokenizer_map[lang].name = call.tokenizer.name
                /\ language_tokenizer_map[lang].languages = call.tokenizer.languages
                /\ language_tokenizer_map[lang].detokenize =
                       (IF call.tokenizer.detokenize = "none" THEN "moses" ELSE "own")
          /\ \A lang \in DOMAIN pre.language_tokenizer_map :
                lang \notin Range(call.tokenizer.languages) =>
                    language_tokenizer_map[lang] = pre.language_tokenizer_map[lang]
          /\ DOMAIN language_tokenizer_map =
                 DOMAIN pre.language_tokenizer_map \cup Range(call.tokenizer.languages)
          /\ SubSeq(languages, 1, Len(pre.languages)) = pre.languages

\* C18: tokenizer b, which declares "fr" and "en" and implements no
\* detokenize, has been added to a group that held tokenizer a for "fr": b
\* has taken the place of a, with the default detokenizer, and "fr" is in
\* the list once.
C18_Replaced ==
    /\ Registered
    /\ call.tokenizer = TokenizerObject("b", <<"fr", "en">>, TRUE, "none")
    /\ pre.languages = <<"fr">>
    /\ pre.language_tokenizer_map["fr"].name = "a"
    /\ languages = <<"fr", "en">>
    /\ language_tokenizer_map["fr"].name = "b"
    /\ language_tokenizer_map["fr"].detokenize = "moses"

\* C19 (as stated): extract with a language of the tokenizer group does
\* not raise the unsupported-language TypeError, and when it returns every
\* token was tokenized with the language requested.
C19_RequestedLanguageUsed ==
    (call.op = "extract" /\ Supported(pre, call.lang)) =>
        /\ exc # "TypeError"
        /\ exc = "none" => \A i \in DOMAIN tokens : tokens[i] = call.lang

\* C19: a context constructed with a tokenizer for "fr" alone was asked to
\* extract <p>w</p> in "fr": the text node was tokenized with "en", and the
\* call raised TypeError after the document object and <p> had entered the
\* registry.
C19_DefaultLanguageRefused ==
    /\ call.op = "extract"
    /\ call.lang = "fr"
    /\ call.raw = <<Elem("p", <<Text(1)>>)>>
    /\ pre.languages = <<"fr">>
    /\ exc = "TypeError"
    /\ DOMAIN tag_id_map = {0, 1}
    /\ tokens = <<>>

\* the opening-tag and closing-tag units of TagId t in an output, in order
TagEvents(out, t) ==
    LET of_t(unit) == unit.u \in {"open", "close"} /\ unit.id = t
    IN SelectSeq(out, of_t)

\* open, close, open, close, ... ending with a close
Alternates(events) ==
    /\ Len(events) % 2 = 0
    /\ \A k \in DOMAIN events :
          events[k].u = (IF k % 2 = 1 THEN "open" ELSE "close")

\* C21: when reinsertion returns, for every registered TagId other than 0
\* the opening and closing tags of the output alternate, beginning with an
\* opening tag and ending with a closing tag, and no unit of the output is
\* the tag or the fragment of TagId 0.
C21_Balanced ==
    (Reinserted /\ exc = "none") =>
        /\ \A t \in DOMAIN pre.tag_id_map \ {0} : Alternates(TagEvents(output, t))
        /\ \A i \in DOMAIN output : output[i].id # 0

\* C21: a reinsertion has returned an output in which one TagId is opened,
\* closed at a token boundary, opened again at a later token and closed by
\* the final loop after the last text.
C21_ReopenedAndForceClosed ==
    /\ Reinserted /\ exc = "none"
    /\ Len(output) >= 2
    /\ output[Len(output)].u = "close"
    /\ output[Len(output) - 1].u = "text"
    /\ Len(TagEvents(output, output[Len(output)].id)) = 4

\* the number of tokens in the text units among the first p units
RECURSIVE TokenCount(_, _)
TokenCount(out, p) ==
    IF p = 0 THEN 0 ELSE TokenCount(out, p - 1) + Len(out[p].toks)

\* the positions of the tags and fragments emitted between the text of the
\* tokens before index k and the text of token k
BoundaryAt(out, k) ==
    {p \in DOMAIN out : is_tag(out[p]) /\ TokenCount(out, p) = k}

\* the TagIds of token index k in the map that is walked
WalkedTags(k) ==
    IF k \in DOMAIN Walked.c[MapSide(call.target)]
    THEN Range(Walked.c[MapSide(call.target)][k]) ELSE {}

Opening(k) == WalkedTags(k) \ WalkedTags(k - 1)

Closing(k) == WalkedTags(k - 1) \ WalkedTags(k)

\* the fragments anchored at index k
Anchored(k) ==
    IF k \in DOMAIN WalkedNoTokens THEN Range(WalkedNoTokens[k]) ELSE {}

\* the TagIds of ids that have a rendering: registered and not the root
Rendered(ids) == (ids \cap DOMAIN pre.tag_id_map) \ {0}

\* the units of kind u at the positions B of the output are one unit for
\* each TagId of ids
OncePerId(B, u, ids) ==
    /\ {output[p].id : p \in {q \in B : output[q].u = u}} = ids
    /\ Cardinality({q \in B : output[q].u = u}) = Cardinality(ids)

\* the order of the units emitted at token index k
BoundaryOrder(k, B) ==
    /\ OncePerId(B, "close", Rendered(Closing(k)))
    /\ OncePerId(B, "open", Rendered(Opening(k)))
    /\ OncePerId(B, "frag", Anchored(k) \cap DOMAIN pre.tag_id_map)
    /\ \A p, q \in B :
          /\ (output[p].u = "close" /\ output[q].u # "close") => p < q
          /\ (output[p].u = "frag" /\ output[q].u = "open"
                  /\ output[p].id < output[q].id) => p < q
          /\ (output[p].u = "frag" /\ output[q].u = "open" /\ p < q) =>
                \E o \in B : /\ output[o].u = "open" /\ p < o
                              /\ output[p].id < output[o].id

\* the buffered text is flushed at token index k
FlushedAt(k) ==
    \E p \in DOMAIN output : output[p].u = "text" /\ TokenCount(output, p) = k

\* C22: when reinsertion returns, at every token index k the output has, in
\* this order: the text of the tokens before k, flushed exactly when some
\* TagId opens, closes or is anchored at k; one closing tag for each TagId
\* that was active and is not in the entry of k; the opening tags of the
\* TagIds of the entry that were not active, each after every anchored
\* fragment with a smaller TagId; the fragments that are smaller than no
\* opening TagId; then the text of token k.  Each anchored fragment is
\* there once and a TagId that stays active has no unit.
C22_BoundaryOrder ==
    (Reinserted /\ exc = "none") =>
        \A k \in 0..(Len(call.tokens) - 1) :
            /\ BoundaryOrder(k, BoundaryAt(output, k))
            /\ k > 0 =>
                  (FlushedAt(k) <=>
                      (Opening(k) # {} \/ Closing(k) # {} \/ Anchored(k) # {}))

\* C22: <p>w</p><br><b><br>w</b> reinserted from the source maps into two
\* tokens: at index 1 the text of the first token is flushed, <p> (TagId 1)
\* is closed, the first <br> (TagId 2) comes before the opening <b> (TagId 3)
\* and the second <br> (TagId 4) after it.
C22_FragmentsAroundOpening ==
    /\ Reinserted /\ exc = "none"
    /\ Len(call.tokens) = 2
    /\ \E p \in DOMAIN output :
          /\ p + 5 \in DOMAIN output
          /\ output[p].u = "text"
          /\ output[p + 1].u = "close" /\ output[p + 1].id = 1
          /\ output[p + 2] = Space
          /\ output[p + 3].u = "frag" /\ output[p + 3].id = 2
          /\ output[p + 4].u = "open" /\ output[p + 4].id = 3
          /\ output[p + 5].u = "frag" /\ output[p + 5].id = 4

\* the comments and elements of nodes[i..] in the order the traversal
\* visits them, appended to acc: a node before its children, the children
\* in document order, and nothing below a do-not-translate or text-less
\* element; text nodes are left out
RECURSIVE PreOrder(_, _, _)
PreOrder(nodes, i, acc) ==
    IF i > Len(nodes) THEN acc
    ELSE IF nodes[i].type = "text" THEN PreOrder(nodes, i + 1, acc)
    ELSE IF nodes[i].type = "comment" \/ Verbatim(nodes[i])
    THEN PreOrder(nodes, i + 1, Append(acc, nodes[i]))
    ELSE PreOrder(nodes, i + 1, PreOrder(nodes[i].children, 1, Append(acc, nodes[i])))

\* the visited nodes of a document after the document object, which is
\* visited first and is itself text-less when the document has no text
Visited(raw) == Tail(PreOrder(<<Soup(raw)>>, 1, <<>>))

\* registry fragment f is the rendering of node
RendersNode(f, node) ==
    IF node.type = "comment" THEN f.form = "comment"
    ELSE f.form # "comment" /\ f.name = node.name

\* C23: after extract on a new context, the registry keys are 1..n for the
\* n comments and elements visited, and TagId k is the rendering of the k-th
\* of them in pre-order: one TagId per visited node, a node's TagId below
\* those of its descendants and of the nodes visited after it, none for the
\* text nodes, 0 for the document object alone.
C23_PreOrderIds ==
    (Extracted /\ pre = EmptyCtx) =>
        /\ DOMAIN tag_id_map = 1..Len(Visited(call.raw))
        /\ \A k \in DOMAIN tag_id_map :
              RendersNode(tag_id_map[k], Visited(call.raw)[k])

\* C23: <p>w<b></b></p><br> has been extracted: <p> is TagId 1, the <b>
\* inside it 2 and the <br> after </p> 3; the text node took no TagId.
C23_NestedThenSibling ==
    /\ Extracted /\ pre = EmptyCtx
    /\ call.raw = <<Elem("p", <<Text(1), Elem("b", <<>>)>>), Elem("br", <<>>)>>
    /\ DOMAIN tag_id_map = 1..3
    /\ tag_id_map[1].name = "p"
    /\ tag_id_map[2].name = "b"
    /\ tag_id_map[3].name = "br"

\* the slots of the source maps and of the target maps
SourceSlots == ({"tag_map"} \X DOMAIN tag_map) \cup ({"no_token_tags"} \X DOMAIN no_token_tags)

TargetSlots ==
    ({"tgt_tag_map"} \X DOMAIN tgt_tag_map)
        \cup ({"tgt_no_token_tags"} \X DOMAIN tgt_no_token_tags)

\* C24 (as stated): after a migrate call the source TagMap, the source
\* NoTokenMap, the source tokens and the registry are what they were before
\* it, and no target map entry is the same list as a source map entry.
C24_SourceUnchanged ==
    Migrated =>
        /\ tag_map = pre.tag_map
        /\ no_token_tags = pre.no_token_tags
        /\ tokens = pre.tokens
        /\ tag_id_map = pre.tag_id_map
        /\ \A cl \in shared : cl \cap SourceSlots = {} \/ cl \cap TargetSlots = {}

\* C24: <br>a<br>b was extracted (NoTokenMap {0: [1], 1: [2]}); migrate([])
\* raised AttributeError at the second anchor after the first had made the
\* target entry 0 the list of the source entry 0; migrate([(1, 0, 1)]) then
\* extended that list, and the source NoTokenMap is {0: [1, 2], 1: [2]}.
C24_SourceEntryExtended ==
    /\ Migrated /\ exc = "none"
    /\ prev.call.op = "migrate" /\ prev.exc = "AttributeError"
    /\ call.alignments = <<<<1, 0, FullScore>>>>
    /\ pre.no_token_tags = (0 :> <<1>> @@ 1 :> <<2>>)
    /\ no_token_tags = (0 :> <<1, 2>> @@ 1 :> <<2>>)

====
